---------------------------- MODULE Spec2Model ----------------------------
(***************************************************************************)
(* Transcription-evaluation engine of Dysgair (src/api/analysis).          *)
(*                                                                         *)
(* A text is a sequence of one-character strings, so the empty string is   *)
(* <<>>.  A token is a text too: one character, or a digraph marker such   *)
(* as <<"⟨","l","l","⟩">>.  An alignment operation is a record             *)
(* [operation, expected, actual], the Python tuple of the same order.      *)
(*                                                                         *)
(* Each component has its own specification over its own variables; the    *)
(* variables of the other components stay at their idle values.            *)
(*   SpecAlign       ErrorAnalyzer.compute_character_alignment             *)
(*   SpecAlignFair   the same, its backtrace loop weakly fair              *)
(*   SpecTokenize    WelshTextProcessor.tokenize_welsh                     *)
(*   SpecClassify    WelshTextProcessor.classify_token                     *)
(*   SpecLenient     WelshTextProcessor.apply_lenient_normalization        *)
(*   SpecStats       ErrorAnalyzer.build_error_stats                       *)
(*   SpecSafeDivide  MetricsCalculator.safe_divide                         *)
(*   SpecCohensD     MetricsCalculator.calculate_cohens_d                  *)
(*   SpecHybrid      ModelComparator.hybrid_best_case_analysis             *)
(*   SpecErrorCosts  ModelComparator.error_cost_analysis (one model)       *)
(*   SpecAgreement   ModelComparator.inter_rater_reliability               *)
(*   SpecComparison  ModelComparator.model_comparison_analysis             *)
(*   SpecSummary     ReportGenerator.executive_summary_analysis            *)
(*   SpecLinguistic  LinguisticAnalyzer, errors by category                *)
(*   SpecNormalize   WelshTextProcessor.normalize_text                     *)
(*   SpecSession     StatisticalAnalyzer, calls on one analyzer            *)
(***************************************************************************)
EXTENDS Integers, Sequences, FiniteSets, TLC

VARIABLES
    \* compute_character_alignment
    pc,              \* the position of the single thread of control
    target_tokens,   \* the reference token sequence
    asr_tokens,      \* the hypothesis token sequence
    dp,              \* the cost table, dp[i][j] for i in 0..m, j in 0..n
    i,               \* backtrace row
    j,               \* backtrace column
    alignments,      \* the operations appended so far (reversed at the end)
    \* tokenize_welsh
    text,            \* the argument
    tokens,          \* the returned token list
    \* classify_token
    token,           \* the argument
    category,        \* the returned category
    \* apply_lenient_normalization
    target,          \* the reference argument
    transcription,   \* the hypothesis argument
    lenient_result,  \* the returned pair
    \* build_error_stats
    token_filter,    \* the category filter, or None
    all_alignments,  \* the operations of the argument list taken so far
    per_character,   \* unit -> [total, errors], and error_rate at the end
    confusion_matrix,      \* the confusion dict, in insertion order
    confusion_matrix_list, \* the emitted confusion list
    \* MetricsCalculator.safe_divide
    numerator,       \* the first argument
    denominator,     \* the second argument
    default,         \* the value for the undefined cases
    safe_divide_result,    \* the returned value
    \* MetricsCalculator.calculate_cohens_d
    data1,           \* the first group of values
    data2,           \* the second group of values
    cohens_d,        \* the returned effect size
    \* ModelComparator.hybrid_best_case_analysis
    hybrid_entries,  \* the argument: the batch of entries
    hybrid_cers,     \* the minimum lenient CER of every included entry
    selection_counts,      \* how often each model, or neither, was selected
    hybrid_result,   \* the returned dict, or the exception raised
    \* ModelComparator.error_cost_analysis: calculate_error_costs
    entries_list,    \* the argument: the batch of entries
    use_lenient,     \* the argument: lenient fields and matching
    cost_result,     \* the returned dict
    \* ModelComparator.inter_rater_reliability
    agreement_entries,    \* the argument: the batch of entries
    agreement_result,     \* the returned dict, or the exception raised
    \* ModelComparator.model_comparison_analysis
    comparison_entries,   \* the argument: the batch of entries
    comparison_lists,     \* the paired lists of every metric
    comparison_result,    \* the returned dict, or the exception raised
    \* ReportGenerator.executive_summary_analysis
    summary_entries,      \* the argument: the batch of entries
    summary_result,       \* the returned dict, or the exception raised
    \* LinguisticAnalyzer._analyze_model_errors_by_category
    linguistic_entries,   \* entries
    linguistic_mode,      \* apply_lenient and use_strict
    category_stats,       \* the counters of the four categories
    skipped_count,        \* entries without reference or hypothesis
    linguistic_result,    \* the returned dictionary
    \* WelshTextProcessor.normalize_text
    raw_text,             \* text
    normalized_text,           \* normalize_text(text)
    renormalized_text,         \* normalize_text of the normalized text
    \* StatisticalAnalyzer, calls on the shared analyzer
    analyzer,             \* the fields of the StatisticalAnalyzer
    batches,              \* the batches the caller holds
    ingested,             \* the batches as they were ingested
    call_stats,           \* category_stats of the latest call
    returned,             \* the results returned, by batch and call
    calls                 \* the number of calls made

alignVars == <<target_tokens, asr_tokens, dp, i, j, alignments>>
tokenizeVars == <<text, tokens>>
classifyVars == <<token, category>>
lenientVars == <<target, transcription, lenient_result>>
statsVars == <<token_filter, all_alignments, per_character, confusion_matrix,
               confusion_matrix_list>>

safeDivideVars == <<numerator, denominator, default, safe_divide_result>>

cohensDVars == <<data1, data2, cohens_d>>

hybridVars == <<hybrid_entries, hybrid_cers, selection_counts, hybrid_result>>

errorCostVars == <<entries_list, use_lenient, cost_result>>

agreementVars == <<agreement_entries, agreement_result>>

comparisonVars == <<comparison_entries, comparison_lists, comparison_result>>

summaryVars == <<summary_entries, summary_result>>

linguisticVars == <<linguistic_entries, linguistic_mode, category_stats, skipped_count, linguistic_result>>

normalizeVars == <<raw_text, normalized_text, renormalized_text>>

sessionVars == <<analyzer, batches, ingested, call_stats, returned, calls>>

vars == <<pc, alignVars, tokenizeVars, classifyVars, lenientVars,
         statsVars, safeDivideVars, cohensDVars, hybridVars, errorCostVars,
         agreementVars, comparisonVars, summaryVars, linguisticVars,
         normalizeVars, sessionVars>>

\* What each component leaves alone: the variables of the others.
otherThanAlign == <<tokenizeVars, classifyVars, lenientVars, statsVars,
    safeDivideVars, cohensDVars, hybridVars, errorCostVars, agreementVars,
    comparisonVars, summaryVars, linguisticVars, normalizeVars, sessionVars>>
otherThanTokenize == <<alignVars, classifyVars, lenientVars, statsVars,
    safeDivideVars, cohensDVars, hybridVars, errorCostVars, agreementVars,
    comparisonVars, summaryVars, linguisticVars, normalizeVars, sessionVars>>
otherThanClassify == <<alignVars, tokenizeVars, lenientVars, statsVars,
    safeDivideVars, cohensDVars, hybridVars, errorCostVars, agreementVars,
    comparisonVars, summaryVars, linguisticVars, normalizeVars, sessionVars>>
otherThanLenient == <<alignVars, tokenizeVars, classifyVars, statsVars,
    safeDivideVars, cohensDVars, hybridVars, errorCostVars, agreementVars,
    comparisonVars, summaryVars, linguisticVars, normalizeVars, sessionVars>>
otherThanStats == <<alignVars, tokenizeVars, classifyVars, lenientVars,
    safeDivideVars, cohensDVars, hybridVars, errorCostVars, agreementVars,
    comparisonVars, summaryVars, linguisticVars, normalizeVars, sessionVars>>
otherThanSafeDivide == <<alignVars, tokenizeVars, classifyVars,
    lenientVars, statsVars, cohensDVars, hybridVars, errorCostVars,
    agreementVars, comparisonVars, summaryVars, linguisticVars,
    normalizeVars, sessionVars>>
otherThanCohensD == <<alignVars, tokenizeVars, classifyVars, lenientVars,
    statsVars, safeDivideVars, hybridVars, errorCostVars, agreementVars,
    comparisonVars, summaryVars, linguisticVars, normalizeVars, sessionVars>>
otherThanHybrid == <<alignVars, tokenizeVars, classifyVars, lenientVars,
    statsVars, safeDivideVars, cohensDVars, errorCostVars, agreementVars,
    comparisonVars, summaryVars, linguisticVars, normalizeVars, sessionVars>>
otherThanErrorCosts == <<alignVars, tokenizeVars, classifyVars,
    lenientVars, statsVars, safeDivideVars, cohensDVars, hybridVars,
    agreementVars, comparisonVars, summaryVars, linguisticVars,
    normalizeVars, sessionVars>>
otherThanAgreement == <<alignVars, tokenizeVars, classifyVars, lenientVars,
    statsVars, safeDivideVars, cohensDVars, hybridVars, errorCostVars,
    comparisonVars, summaryVars, linguisticVars, normalizeVars, sessionVars>>
otherThanComparison == <<alignVars, tokenizeVars, classifyVars,
    lenientVars, statsVars, safeDivideVars, cohensDVars, hybridVars,
    errorCostVars, agreementVars, summaryVars, linguisticVars,
    normalizeVars, sessionVars>>
otherThanSummary == <<alignVars, tokenizeVars, classifyVars, lenientVars,
    statsVars, safeDivideVars, cohensDVars, hybridVars, errorCostVars,
    agreementVars, comparisonVars, linguisticVars, normalizeVars,
    sessionVars>>
otherThanLinguistic == <<alignVars, tokenizeVars, classifyVars,
    lenientVars, statsVars, safeDivideVars, cohensDVars, hybridVars,
    errorCostVars, agreementVars, comparisonVars, summaryVars,
    normalizeVars, sessionVars>>
otherThanNormalize == <<alignVars, tokenizeVars, classifyVars, lenientVars,
    statsVars, safeDivideVars, cohensDVars, hybridVars, errorCostVars,
    agreementVars, comparisonVars, summaryVars, linguisticVars, sessionVars>>
otherThanSession == <<alignVars, tokenizeVars, classifyVars, lenientVars,
    statsVars, safeDivideVars, cohensDVars, hybridVars, errorCostVars,
    agreementVars, comparisonVars, summaryVars, linguisticVars,
    normalizeVars>>

----------------------------------------------------------------------------
(* Bounds *)

\* Longest token sequence handed to compute_character_alignment.
MaxTokens == 3

\* Longest text handed to tokenize_welsh.
MaxTextLen == 3

\* Longest token handed to classify_token.
MaxTokenLen == 4

\* Longest string handed to apply_lenient_normalization.
MaxStrLen == 3

\* Longest list of operations handed to build_error_stats.
MaxOps == 3

\* The largest finite float of the model: a result beyond it rounds to an
\* infinity, as a result beyond sys.float_info.max does.
MaxFloat == 1000

\* Longest group of values handed to calculate_cohens_d.
MaxSample == 3

\* Longest batch of entries handed to an analysis of ModelComparator.
MaxEntries == 2

\* Longest batch of entries handed to calculate_error_costs.
MaxCostEntries == 4


\* The calls made on one analyzer in a run.
MaxCalls == 3

----------------------------------------------------------------------------
(* Generic helpers *)

\* All sequences over S of length at most n.
SeqsUpTo(S, n) == UNION {[1..k -> S] : k \in 0..n}

\* Python's min() of three integers.
Min3(a, b, c) == IF a <= b /\ a <= c THEN a ELSE IF b <= c THEN b ELSE c

\* list.reverse()
ReverseMutant(s) == s
Reverse(s) == [k \in 1..Len(s) |-> s[Len(s) + 1 - k]]

\* The empty string, also the absent side of an operation.
Empty == <<>>

\* The digraph marker the tokenizer emits for a two-character digraph.
Marker(d) == <<"⟨">> \o d \o <<"⟩">>

----------------------------------------------------------------------------
(* text_processing.py: constants and string primitives *)

WELSH_DIGRAPHS ==
    << <<"l", "l">>, <<"c", "h">>, <<"d", "d">>, <<"f", "f">>,
       <<"n", "g">>, <<"r", "h">>, <<"p", "h">>, <<"t", "h">> >>

\* "w^" and "y^" stand for the single characters U+0175 and U+0177 (w and y
\* with circumflex), "W^" and "Y^" for their upper-case forms.
WELSH_VOWELS ==
    {"a", "e", "i", "o", "u", "y", "ẃ", "â", "ê", "î", "ô", "û", "w^", "y^",
     "à", "è", "ì", "ò", "ù", "ẁ", "ỳ", "ä", "ë", "ï", "ö", "ü", "ẅ", "ÿ"}

WELSH_CONSONANTS ==
    {"b", "c", "d", "f", "g", "h", "j", "k", "l", "m", "n", "p", "q", "r",
     "s", "t", "v", "x", "z"}

\* The characters str.strip() and str.split() take for whitespace (the
\* ASCII ones; Python takes every Unicode whitespace character).
PyWhitespace == {" ", "\t", "\n", "\r", "\f"}

\* The characters the token scan skips: text[i] not in ' \t\n'.
ScanSkipped == {" ", "\t", "\n"}

UpperLetters ==
    <<"A", "B", "C", "D", "E", "F", "G", "H", "I", "J", "K", "L", "M", "N",
      "O", "P", "Q", "R", "S", "T", "U", "V", "W", "X", "Y", "Z", "W^", "Y^">>
LowerLetters ==
    <<"a", "b", "c", "d", "e", "f", "g", "h", "i", "j", "k", "l", "m", "n",
      "o", "p", "q", "r", "s", "t", "u", "v", "w", "x", "y", "z", "w^", "y^">>

\* str.lower() on one character.
LowerChar(c) ==
    IF \E k \in 1..Len(UpperLetters) : UpperLetters[k] = c
    THEN LowerLetters[CHOOSE k \in 1..Len(UpperLetters) : UpperLetters[k] = c]
    ELSE c

\* str.lower()
Lower(s) == [k \in 1..Len(s) |-> LowerChar(s[k])]

\* str.strip(chars): drop the leading and trailing characters that are in chars.
RECURSIVE LStripChars(_, _)
LStripChars(s, chars) ==
    IF s # <<>> /\ Head(s) \in chars THEN LStripChars(Tail(s), chars) ELSE s

RECURSIVE RStripChars(_, _)
RStripChars(s, chars) ==
    IF s # <<>> /\ s[Len(s)] \in chars
    THEN RStripChars(SubSeq(s, 1, Len(s) - 1), chars)
    ELSE s

StripChars(s, chars) == RStripChars(LStripChars(s, chars), chars)

\* str.strip()
Strip(s) == StripChars(s, PyWhitespace)

\* str.replace(old, new): every non-overlapping occurrence, leftmost first.
RECURSIVE Replace(_, _, _)
Replace(s, old, new) ==
    IF Len(s) < Len(old) THEN s
    ELSE IF SubSeq(s, 1, Len(old)) = old
         THEN new \o Replace(SubSeq(s, Len(old) + 1, Len(s)), old, new)
         ELSE <<Head(s)>> \o Replace(Tail(s), old, new)

\* str.find(c, start) with 1-based positions: the first position >= start
\* holding c, 0 when there is none (Python's -1).
Find(s, c, start) ==
    IF \E k \in start..Len(s) : s[k] = c
    THEN CHOOSE k \in start..Len(s) :
            s[k] = c /\ \A q \in start..(k - 1) : s[q] # c
    ELSE 0

\* str.split(): the maximal runs of non-whitespace characters.
RECURSIVE Split(_)
Split(s) ==
    LET t == LStripChars(s, PyWhitespace) IN
    IF t = <<>> THEN <<>>
    ELSE LET ws == {k \in 1..Len(t) : t[k] \in PyWhitespace}
             stop == IF ws = {} THEN Len(t) + 1
                     ELSE CHOOSE k \in ws : \A q \in ws : k <= q
         IN  <<SubSeq(t, 1, stop - 1)>> \o Split(SubSeq(t, stop, Len(t)))

\* c in s
Contains(s, c) == \E k \in 1..Len(s) : s[k] = c

----------------------------------------------------------------------------
(* WelshTextProcessor.tokenize_welsh *)

\* for digraph in WELSH_DIGRAPHS: text = text.replace(digraph, f'⟨{digraph}⟩'),
\* from the k-th digraph of the list on.
RECURSIVE ReplaceDigraphs(_, _)
ReplaceDigraphs(s, k) ==
    IF k > Len(WELSH_DIGRAPHS) THEN s
    ELSE ReplaceDigraphs(
            Replace(s, WELSH_DIGRAPHS[k], Marker(WELSH_DIGRAPHS[k])), k + 1)

\* The while loop of lines 130-143 from position p on (Python's i = p - 1).
RECURSIVE ScanTokens(_, _)
ScanTokens(s, p) ==
    IF p > Len(s) THEN <<>>
    ELSE IF p < Len(s) /\ s[p] = "⟨" /\ Find(s, "⟩", p) # 0
         THEN <<SubSeq(s, p, Find(s, "⟩", p))>>
                 \o ScanTokens(s, Find(s, "⟩", p) + 1)
         ELSE (IF s[p] \notin ScanSkipped THEN << <<s[p]>> >> ELSE <<>>)
                 \o ScanTokens(s, p + 1)

tokenize_welsh(s) == ScanTokens(ReplaceDigraphs(Strip(Lower(s)), 1), 1)

\* Characters of the texts handed to tokenize_welsh: letters of the digraphs
\* ll, ch and ng, a vowel, an upper-case letter, a space and a carriage return.
TextAlphabet == {"l", "c", "h", "n", "g", "a", "L", " ", "\r"}

TokenizeIdle ==
    /\ text = <<>>
    /\ tokens = <<>>

TokenizeInit ==
    /\ pc = "tokenize"
    /\ text \in SeqsUpTo(TextAlphabet, MaxTextLen)
    /\ tokens = <<>>

Tokenize ==
    /\ pc = "tokenize"
    /\ tokens' = tokenize_welsh(text)
    /\ pc' = "tokenized"
    /\ UNCHANGED <<text, otherThanTokenize>>

----------------------------------------------------------------------------
(* WelshTextProcessor.classify_token *)

\* token.startswith('⟨') and token.endswith('⟩')
IsMarkerMutant(t) == Len(t) >= 1 /\ t[1] = "⟨"
IsMarker(t) == Len(t) >= 1 /\ t[1] = "⟨" /\ t[Len(t)] = "⟩"

classify_token(t) ==
    IF IsMarker(t) THEN "digraph"
    ELSE IF Len(t) = 1 /\ t[1] \in WELSH_VOWELS THEN "vowel"
    ELSE IF Len(t) = 1 /\ t[1] \in WELSH_CONSONANTS THEN "consonant"
    ELSE "other"

\* Characters of the tokens handed to classify_token.
TokenAlphabet == {"a", "A", "b", "B", "w", "l", "⟨", "⟩"}

ClassifyIdle ==
    /\ token = <<>>
    /\ category = "none"

ClassifyInit ==
    /\ pc = "classify"
    /\ token \in SeqsUpTo(TokenAlphabet, MaxTokenLen)
    /\ category = "none"

Classify ==
    /\ pc = "classify"
    /\ category' = classify_token(token)
    /\ pc' = "classified"
    /\ UNCHANGED <<token, otherThanClassify>>

----------------------------------------------------------------------------
(* WelshTextProcessor.apply_lenient_normalization *)

\* s.replace(' ', '')
RemoveSpacesMutant(s) == s
RemoveSpaces(s) == Replace(s, <<" ">>, <<>>)

\* transcription_words and transcription_words[0] == target
FirstWordIsTargetMutant(words, t) ==
    /\ words # <<>>
    /\ Len(words[1]) >= Len(t)
    /\ SubSeq(words[1], 1, Len(t)) = t
FirstWordIsTarget(words, t) == words # <<>> /\ words[1] = t

apply_lenient_normalization(t, h) ==
    LET target_no_spaces == RemoveSpaces(t)
        transcription_no_spaces == RemoveSpaces(h)
    IN  IF target_no_spaces # <<>> /\ target_no_spaces = transcription_no_spaces
        THEN <<t, t>>
        ELSE IF /\ t # <<>>
                /\ ~Contains(Strip(t), " ")
                /\ FirstWordIsTarget(Split(h), t)
             THEN <<t, t>>
             ELSE <<t, h>>

\* Characters of the strings handed to apply_lenient_normalization.
LenientAlphabet == {"a", "b", " ", "\t"}

LenientIdle ==
    /\ target = <<>>
    /\ transcription = <<>>
    /\ lenient_result = <<>>

LenientInit ==
    /\ pc = "lenient"
    /\ target \in SeqsUpTo(LenientAlphabet, MaxStrLen)
    /\ transcription \in SeqsUpTo(LenientAlphabet, MaxStrLen)
    /\ lenient_result = <<>>

LenientMatch ==
    /\ pc = "lenient"
    /\ lenient_result' = apply_lenient_normalization(target, transcription)
    /\ pc' = "lenient_done"
    /\ UNCHANGED <<target, transcription, otherThanLenient>>

----------------------------------------------------------------------------
(* compute_character_alignment: the cost table *)

\* Tokens the alignment inputs are drawn from: a vowel, a consonant, a digraph.
AlignTokens == {<<"a">>, <<"b">>, Marker(<<"l", "l">>)}

\* dp = [[0] * (n + 1) for _ in range(m + 1)], then the two base-case loops.
InitMatrix(m, n) ==
    [r \in 0..m |-> [c \in 0..n |->
        IF c = 0 THEN r ELSE IF r = 0 THEN c ELSE 0]]

\* The value the fill loop stores in dp[r][c] (r, c >= 1); Python indexes the
\* tokens from 0, TLA+ from 1.
DpCellMutant(d, t, a, r, c) ==
    IF t[r] = a[c]
    THEN d[r-1][c-1]
    ELSE 1 + (IF d[r-1][c] <= d[r][c-1] THEN d[r-1][c] ELSE d[r][c-1])
DpCell(d, t, a, r, c) ==
    IF t[r] = a[c]
    THEN d[r-1][c-1]
    ELSE 1 + Min3(d[r-1][c], d[r][c-1], d[r-1][c-1])

\* for i in range(1, m + 1): for j in range(1, n + 1): dp[i][j] = ...
RECURSIVE FillMatrix(_, _, _, _, _)
FillMatrix(d, t, a, r, c) ==
    IF r > Len(t) THEN d
    ELSE IF c > Len(a) THEN FillMatrix(d, t, a, r + 1, 1)
    ELSE FillMatrix([d EXCEPT ![r][c] = DpCell(d, t, a, r, c)], t, a, r, c + 1)

----------------------------------------------------------------------------
(* compute_character_alignment: the state machine *)

AlignIdle ==
    /\ target_tokens = <<>>
    /\ asr_tokens = <<>>
    /\ dp = <<>>
    /\ i = 0
    /\ j = 0
    /\ alignments = <<>>

AlignInit ==
    /\ pc = "align"
    /\ target_tokens \in SeqsUpTo(AlignTokens, MaxTokens)
    /\ asr_tokens \in SeqsUpTo(AlignTokens, MaxTokens)
    /\ dp = <<>>
    /\ i = 0
    /\ j = 0
    /\ alignments = <<>>

\* Lines 46-70: build the table, then i, j = m, n.
ComputeMatrix ==
    /\ pc = "align"
    /\ dp' = FillMatrix(InitMatrix(Len(target_tokens), Len(asr_tokens)),
                        target_tokens, asr_tokens, 1, 1)
    /\ i' = Len(target_tokens)
    /\ j' = Len(asr_tokens)
    /\ alignments' = <<>>
    /\ pc' = "backtrack"
    /\ UNCHANGED <<otherThanAlign, target_tokens, asr_tokens>>

\* while i > 0 or j > 0
InLoop == pc = "backtrack" /\ (i > 0 \/ j > 0)

\* The conditions of the if / elif chain, each as written in the code.
CondMatch == i > 0 /\ j > 0 /\ target_tokens[i] = asr_tokens[j]
CondSubstitutionMutant == i > 0 /\ j > 0
CondSubstitution == i > 0 /\ j > 0 /\ dp[i][j] = dp[i-1][j-1] + 1
CondDeletionMutant == i > 0 /\ dp[i][j] = dp[i-1][j] + 2
CondDeletion == i > 0 /\ dp[i][j] = dp[i-1][j] + 1
CondInsertion == j > 0 /\ dp[i][j] = dp[i][j-1] + 1

BacktraceMatchMutant ==
    /\ InLoop
    /\ CondMatch
    /\ alignments' = Append(alignments,
          [operation |-> "match", expected |-> target_tokens[i],
           actual |-> asr_tokens[j]])
    /\ i' = i - 1
    /\ UNCHANGED <<otherThanAlign, j, pc, target_tokens, asr_tokens, dp>>
BacktraceMatch ==
    /\ InLoop
    /\ CondMatch
    /\ alignments' = Append(alignments,
          [operation |-> "match", expected |-> target_tokens[i],
           actual |-> asr_tokens[j]])
    /\ i' = i - 1
    /\ j' = j - 1
    /\ UNCHANGED <<otherThanAlign, pc, target_tokens, asr_tokens, dp>>

BacktraceSubstitution ==
    /\ InLoop
    /\ ~CondMatch
    /\ CondSubstitution
    /\ alignments' = Append(alignments,
          [operation |-> "substitution", expected |-> target_tokens[i],
           actual |-> asr_tokens[j]])
    /\ i' = i - 1
    /\ j' = j - 1
    /\ UNCHANGED <<otherThanAlign, pc, target_tokens, asr_tokens, dp>>

BacktraceDeletionMutant ==
    /\ InLoop
    /\ ~CondMatch
    /\ CondDeletion
    /\ alignments' = Append(alignments,
          [operation |-> "deletion", expected |-> target_tokens[i],
           actual |-> Empty])
    /\ i' = i - 1
    /\ UNCHANGED <<otherThanAlign, j, pc, target_tokens, asr_tokens, dp>>
BacktraceDeletion ==
    /\ InLoop
    /\ ~CondMatch
    /\ ~CondSubstitution
    /\ CondDeletion
    /\ alignments' = Append(alignments,
          [operation |-> "deletion", expected |-> target_tokens[i],
           actual |-> Empty])
    /\ i' = i - 1
    /\ UNCHANGED <<otherThanAlign, j, pc, target_tokens, asr_tokens, dp>>

BacktraceInsertion ==
    /\ InLoop
    /\ ~CondMatch
    /\ ~CondSubstitution
    /\ ~CondDeletion
    /\ CondInsertion
    /\ alignments' = Append(alignments,
          [operation |-> "insertion", expected |-> Empty,
           actual |-> asr_tokens[j]])
    /\ j' = j - 1
    /\ UNCHANGED <<otherThanAlign, i, pc, target_tokens, asr_tokens, dp>>

\* Lines 91-93: the loop is over; alignments.reverse(); return alignments.
ReverseAndReturn ==
    /\ pc = "backtrack"
    /\ ~(i > 0 \/ j > 0)
    /\ alignments' = Reverse(alignments)
    /\ pc' = "align_done"
    /\ UNCHANGED <<otherThanAlign, target_tokens, asr_tokens, dp, i, j>>

AlignNext ==
    \/ ComputeMatrix
    \/ BacktraceMatch
    \/ BacktraceSubstitution
    \/ BacktraceDeletion
    \/ BacktraceInsertion
    \/ ReverseAndReturn

\* One operation of the returned list.
Operation(op, e, a) == [operation |-> op, expected |-> e, actual |-> a]

\* The call as one function of its arguments.  PreferenceWalk lists, in
\* forward order, the operations of the walk from cell (r, c) of table d back
\* to (0, 0) that takes at each cell the first branch of the if / elif chain
\* that applies; a cell where none applies would end the list with "none".
RECURSIVE PreferenceWalk(_, _, _, _, _)
PreferenceWalk(d, t, a, r, c) ==
    IF r = 0 /\ c = 0 THEN <<>>
    ELSE IF r > 0 /\ c > 0 /\ t[r] = a[c]
    THEN Append(PreferenceWalk(d, t, a, r - 1, c - 1), Operation("match", t[r], a[c]))
    ELSE IF r > 0 /\ c > 0 /\ d[r][c] = d[r-1][c-1] + 1
    THEN Append(PreferenceWalk(d, t, a, r - 1, c - 1), Operation("substitution", t[r], a[c]))
    ELSE IF r > 0 /\ d[r][c] = d[r-1][c] + 1
    THEN Append(PreferenceWalk(d, t, a, r - 1, c), Operation("deletion", t[r], Empty))
    ELSE IF c > 0 /\ d[r][c] = d[r][c-1] + 1
    THEN Append(PreferenceWalk(d, t, a, r, c - 1), Operation("insertion", Empty, a[c]))
    ELSE <<Operation("none", Empty, Empty)>>

compute_character_alignment(t, a) ==
    PreferenceWalk(FillMatrix(InitMatrix(Len(t), Len(a)), t, a, 1, 1),
                   t, a, Len(t), Len(a))

----------------------------------------------------------------------------
(* ErrorAnalyzer.build_error_stats *)

\* Python's None, for token_filter and for the type of an absent side.
None == "None"

\* expected.strip('⟨⟩') if expected else ""
Display(t) == StripChars(t, {"⟨", "⟩"})

\* classify_token(side) if side else None
TypeOf(side) == IF side # Empty THEN classify_token(side) ELSE None

\* Lines 112-127, for a filter that is set: whether the loop continues with
\* the next operation without counting this one.
SkippedByFilterMutant(op, filter) ==
    IF op.operation \in {"substitution", "deletion", "insertion"}
    THEN TypeOf(op.expected) # filter
    ELSE IF op.operation = "match" THEN TypeOf(op.expected) # filter
    ELSE FALSE
SkippedByFilter(op, filter) ==
    IF op.operation \in {"substitution", "deletion"}
    THEN TypeOf(op.expected) # filter
    ELSE IF op.operation = "insertion" THEN TypeOf(op.actual) # filter
    ELSE IF op.operation = "match" THEN TypeOf(op.expected) # filter
    ELSE FALSE

\* Lines 134-140: the per-character dictionary after one counted operation.
UpdatePerCharacterMutant(stats, op) ==
    LET expected_display == Display(op.expected)
        old == IF expected_display \in DOMAIN stats
               THEN stats[expected_display]
               ELSE [total |-> 0, errors |-> 0]
        new == [total |-> old.total + 1, errors |-> old.errors + 1]
    IN  IF expected_display # Empty
        THEN [u \in DOMAIN stats \cup {expected_display} |->
                IF u = expected_display THEN new ELSE stats[u]]
        ELSE stats
UpdatePerCharacter(stats, op) ==
    LET expected_display == Display(op.expected)
        old == IF expected_display \in DOMAIN stats
               THEN stats[expected_display]
               ELSE [total |-> 0, errors |-> 0]
        new == [total |-> old.total + 1,
                errors |-> IF op.operation # "match"
                           THEN old.errors + 1 ELSE old.errors]
    IN  IF expected_display # Empty
        THEN [u \in DOMAIN stats \cup {expected_display} |->
                IF u = expected_display THEN new ELSE stats[u]]
        ELSE stats

\* Lines 143-145: the confusion dictionary after one counted operation.  A
\* Python dict keeps its keys in insertion order, so it is a sequence of
\* entries [expected, actual, count] with distinct (expected, actual).
UpdateConfusion(matrix, op) ==
    LET e == Display(op.expected)
        a == Display(op.actual)
        at == {k \in 1..Len(matrix) :
                  matrix[k].expected = e /\ matrix[k].actual = a}
    IN  IF op.operation = "match" THEN matrix
        ELSE IF at = {}
             THEN Append(matrix, [expected |-> e, actual |-> a, count |-> 1])
             ELSE [k \in 1..Len(matrix) |->
                     IF k \in at
                     THEN [matrix[k] EXCEPT !.count = matrix[k].count + 1]
                     ELSE matrix[k]]

\* round(x, 2) of x = n / d, in hundredths: the nearest integer to
\* 100 * n / d, a tie going to the even one.
RoundHundredths(n, d) ==
    LET q == (100 * n) \div d
        r == (100 * n) % d
    IN  IF 2 * r < d THEN q
        ELSE IF 2 * r > d THEN q + 1
        ELSE IF q % 2 = 0 THEN q ELSE q + 1

\* Lines 148-152: the error rate in percent, as an integer number of
\* hundredths of a percent (33.33 is 3333).
ErrorRate(stats) ==
    IF stats.total > 0
    THEN RoundHundredths(stats.errors * 100, stats.total)
    ELSE 0

\* The operations compute_character_alignment can return over AlignTokens.
AlignmentOps ==
    {[operation |-> "match", expected |-> t, actual |-> t] : t \in AlignTokens}
    \cup {[operation |-> "substitution", expected |-> p[1], actual |-> p[2]] :
            p \in {q \in AlignTokens \X AlignTokens : q[1] # q[2]}}
    \cup {[operation |-> "deletion", expected |-> t, actual |-> Empty] :
            t \in AlignTokens}
    \cup {[operation |-> "insertion", expected |-> Empty, actual |-> t] :
            t \in AlignTokens}

\* The values of token_filter: none, or a category.
TokenFilters == {None, "vowel", "consonant", "digraph"}

StatsIdle ==
    /\ token_filter = None
    /\ all_alignments = <<>>
    /\ per_character = <<>>
    /\ confusion_matrix = <<>>
    /\ confusion_matrix_list = <<>>

\* Lines 107-108.  The list of operations is revealed one operation at a
\* time: all_alignments holds the operations the loop has taken so far.
StatsInit ==
    /\ pc = "stats"
    /\ token_filter \in TokenFilters
    /\ all_alignments = <<>>
    /\ per_character = <<>>
    /\ confusion_matrix = <<>>
    /\ confusion_matrix_list = <<>>

\* One iteration of the loop of lines 110-145.
ProcessOperation ==
    /\ pc = "stats"
    /\ Len(all_alignments) < MaxOps
    /\ \E op \in AlignmentOps :
          /\ all_alignments' = Append(all_alignments, op)
          /\ IF token_filter # None /\ SkippedByFilter(op, token_filter)
             THEN UNCHANGED <<per_character, confusion_matrix>>
             ELSE /\ per_character' = UpdatePerCharacter(per_character, op)
                  /\ confusion_matrix' = UpdateConfusion(confusion_matrix, op)
    /\ UNCHANGED <<pc, token_filter, confusion_matrix_list, otherThanStats>>

\* Lines 147-163: the list is exhausted; the error rates, the conversion of
\* the confusion dictionary to a list, the return.
BuildResult ==
    /\ pc = "stats"
    /\ per_character' =
          [u \in DOMAIN per_character |->
              [total |-> per_character[u].total,
               errors |-> per_character[u].errors,
               error_rate |-> ErrorRate(per_character[u])]]
    /\ confusion_matrix_list' = confusion_matrix
    /\ pc' = "stats_done"
    /\ UNCHANGED <<token_filter, all_alignments, confusion_matrix,
                   otherThanStats>>

StatsNext == ProcessOperation \/ BuildResult

----------------------------------------------------------------------------
(* Python and numpy numbers *)

\* A number is a triple.  <<"num", n, d>> is the rational n/d in lowest
\* terms with d > 0 (an int has d = 1); NaN and the two infinities are the
\* floats that are not numbers.  Finite arithmetic is exact up to MaxFloat
\* and rounds to an infinity beyond it; underflow is not modelled.
NaN == <<"nan", 0, 0>>
Inf == <<"inf", 1, 0>>
NegInf == <<"inf", -1, 0>>

\* What "/" with a zero right operand raises.
ZeroDivisionError == <<"ZeroDivisionError", 0, 0>>

Abs(n) == IF n < 0 THEN -n ELSE n

RECURSIVE GCD(_, _)
GCD(a, b) == IF b = 0 THEN a ELSE GCD(b, a % b)

\* The number n/d, d # 0.
Num(n, d) ==
    LET g == GCD(Abs(n), Abs(d))
        s == IF d < 0 THEN -1 ELSE 1
    IN  <<"num", (s * n) \div g, (s * d) \div g>>

IntNum(n) == <<"num", n, 1>>

IsNum(x) == x[1] = "num"

\* np.isnan and np.isinf
IsNaN(x) == x[1] = "nan"
IsInf(x) == x[1] = "inf"

\* -1, 0 or 1 for a number or an infinity.
Sign(x) == IF x[2] > 0 THEN 1 ELSE IF x[2] < 0 THEN -1 ELSE 0

\* The float nearest to n/d, d # 0: an infinity beyond MaxFloat.
Rounded(n, d) ==
    LET x == Num(n, d) IN
    IF x[2] > MaxFloat * x[3] THEN Inf
    ELSE IF x[2] < -(MaxFloat * x[3]) THEN NegInf
    ELSE x

\* x == y and x < y: every comparison with NaN is false.
FloatEq(x, y) == ~IsNaN(x) /\ ~IsNaN(y) /\ x = y

FloatLt(x, y) ==
    IF IsNaN(x) \/ IsNaN(y) THEN FALSE
    ELSE IF IsInf(x) \/ IsInf(y)
         THEN x # y /\ (x = NegInf \/ y = Inf)
         ELSE x[2] * y[3] < y[2] * x[3]

FloatLe(x, y) == FloatLt(x, y) \/ FloatEq(x, y)

\* -x
FloatNeg(x) == <<x[1], -x[2], x[3]>>

\* x + y
FloatAdd(x, y) ==
    IF IsNaN(x) \/ IsNaN(y) THEN NaN
    ELSE IF IsInf(x) /\ IsInf(y) THEN (IF x = y THEN x ELSE NaN)
    ELSE IF IsInf(x) THEN x
    ELSE IF IsInf(y) THEN y
    ELSE Rounded(x[2] * y[3] + y[2] * x[3], x[3] * y[3])

\* x - y
FloatSub(x, y) == FloatAdd(x, FloatNeg(y))

\* x * y
FloatMul(x, y) ==
    IF IsNaN(x) \/ IsNaN(y) THEN NaN
    ELSE IF IsInf(x) \/ IsInf(y)
         THEN (IF Sign(x) * Sign(y) = 0 THEN NaN
               ELSE IF Sign(x) * Sign(y) > 0 THEN Inf ELSE NegInf)
         ELSE Rounded(x[2] * y[2], x[3] * y[3])

\* x / y
FloatDiv(x, y) ==
    IF IsNum(y) /\ y[2] = 0 THEN ZeroDivisionError
    ELSE IF IsNaN(x) \/ IsNaN(y) THEN NaN
    ELSE IF IsInf(x) /\ IsInf(y) THEN NaN
    ELSE IF IsInf(x) THEN (IF Sign(x) * Sign(y) > 0 THEN Inf ELSE NegInf)
    ELSE IF IsInf(y) THEN IntNum(0)
    ELSE Rounded(x[2] * y[3], x[3] * y[2])

----------------------------------------------------------------------------
(* MetricsCalculator.safe_divide *)

\* Without the check of the quotient (lines 51-52).
safe_divideMutant(num, den, dflt) ==
    IF FloatEq(den, IntNum(0)) \/ IsNaN(den) \/ IsNaN(num) THEN dflt
    ELSE FloatDiv(num, den)
safe_divide(num, den, dflt) ==
    IF FloatEq(den, IntNum(0)) \/ IsNaN(den) \/ IsNaN(num) THEN dflt
    ELSE LET result == FloatDiv(num, den) IN
         IF IsInf(result) \/ IsNaN(result) THEN dflt ELSE result

\* The operands handed to safe_divide: zero, small numbers of both signs, a
\* fraction, the largest floats, NaN and the infinities.
FloatOperands ==
    {IntNum(0), IntNum(1), IntNum(-1), IntNum(3), Num(1, 2), IntNum(MaxFloat),
     IntNum(-MaxFloat), NaN, Inf, NegInf}

\* The defaults handed to safe_divide: the 0.0 of the signature, another
\* number, and a default that is not finite.
FloatDefaults == {IntNum(0), IntNum(-1), Inf}

SafeDivideIdle ==
    /\ numerator = IntNum(0)
    /\ denominator = IntNum(0)
    /\ default = IntNum(0)
    /\ safe_divide_result = IntNum(0)

SafeDivideInit ==
    /\ pc = "safe_divide"
    /\ numerator \in FloatOperands
    /\ denominator \in FloatOperands
    /\ default \in FloatDefaults
    /\ safe_divide_result = IntNum(0)

SafeDivide ==
    /\ pc = "safe_divide"
    /\ safe_divide_result' = safe_divide(numerator, denominator, default)
    /\ pc' = "safe_divide_done"
    /\ UNCHANGED <<numerator, denominator, default>>
    /\ UNCHANGED otherThanSafeDivide

----------------------------------------------------------------------------
(* MetricsCalculator.safe_float and calculate_cohens_d *)

\* Python's None where a number is expected.
NoneNum == <<"None", 0, 0>>

safe_float(value, dflt) ==
    IF value = NoneNum \/ IsNaN(value) \/ IsInf(value) THEN dflt ELSE value

\* sum of a list of numbers
RECURSIVE Sum(_)
Sum(data) ==
    IF data = <<>> THEN IntNum(0) ELSE FloatAdd(Head(data), Sum(Tail(data)))

\* np.mean: NaN for an empty list.
Mean(data) ==
    IF data = <<>> THEN NaN ELSE FloatDiv(Sum(data), IntNum(Len(data)))

\* np.std(data, ddof=1) ** 2, the sample variance: the squared deviations
\* from the mean over n - 1, NaN when there are fewer than two values.
Variance(data) ==
    IF Len(data) < 2 THEN NaN
    ELSE LET mean == Mean(data)
             squares == [k \in 1..Len(data) |->
                            FloatMul(FloatSub(data[k], mean),
                                     FloatSub(data[k], mean))]
         IN  FloatDiv(Sum(squares), IntNum(Len(data) - 1))

\* x / np.sqrt(v) for a variance v that is not 0.  A square root is not a
\* rational, so the quotient q is carried as q * |q| = x * |x| / v, which
\* has the sign of q, is 0, NaN or infinite exactly when q is, and is
\* negated exactly when q is.
DivideByRoot(x, v) ==
    IF IsNaN(x) \/ IsNaN(v) THEN NaN
    ELSE IF IsInf(x) /\ IsInf(v) THEN NaN
    ELSE IF IsInf(x) THEN x
    ELSE IF IsInf(v) THEN IntNum(0)
    ELSE IF x[2] * x[2] * v[3] > MaxFloat * MaxFloat * x[3] * x[3] * v[2]
         THEN (IF x[2] > 0 THEN Inf ELSE NegInf)
         ELSE Num(x[2] * Abs(x[2]) * v[3], x[3] * x[3] * v[2])

\* With abs(mean1 - mean2) for the difference of line 91.
calculate_cohens_dMutant(d1, d2) ==
    IF Len(d1) < 2 \/ Len(d2) < 2 THEN IntNum(0)
    ELSE LET diff == FloatSub(Mean(d1), Mean(d2))
             pooled == FloatDiv(
                 FloatAdd(FloatMul(IntNum(Len(d1) - 1), Variance(d1)),
                          FloatMul(IntNum(Len(d2) - 1), Variance(d2))),
                 IntNum(Len(d1) + Len(d2) - 2))
         IN  IF FloatEq(pooled, IntNum(0)) THEN IntNum(0)
             ELSE safe_float(
                    DivideByRoot(IF Sign(diff) < 0 THEN FloatNeg(diff)
                                 ELSE diff, pooled), IntNum(0))
\* The returned d is carried as d * |d| (see DivideByRoot); pooled is the
\* square of pooled_std, 0 exactly when pooled_std is.
calculate_cohens_d(d1, d2) ==
    IF Len(d1) < 2 \/ Len(d2) < 2 THEN IntNum(0)
    ELSE LET mean1 == Mean(d1)
             mean2 == Mean(d2)
             n1 == Len(d1)
             n2 == Len(d2)
             pooled == FloatDiv(
                 FloatAdd(FloatMul(IntNum(n1 - 1), Variance(d1)),
                          FloatMul(IntNum(n2 - 1), Variance(d2))),
                 IntNum(n1 + n2 - 2))
         IN  IF FloatEq(pooled, IntNum(0)) THEN IntNum(0)
             ELSE safe_float(DivideByRoot(FloatSub(mean1, mean2), pooled),
                             IntNum(0))

\* The values of the groups handed to calculate_cohens_d: error rates.
Observations == {IntNum(0), IntNum(1), IntNum(3)}

CohensDIdle ==
    /\ data1 = <<>>
    /\ data2 = <<>>
    /\ cohens_d = IntNum(0)

CohensDInit ==
    /\ pc = "cohens_d"
    /\ data1 \in SeqsUpTo(Observations, MaxSample)
    /\ data2 \in SeqsUpTo(Observations, MaxSample)
    /\ cohens_d = IntNum(0)

CohensD ==
    /\ pc = "cohens_d"
    /\ cohens_d' = calculate_cohens_d(data1, data2)
    /\ pc' = "cohens_d_done"
    /\ UNCHANGED <<data1, data2>>
    /\ UNCHANGED otherThanCohensD

----------------------------------------------------------------------------
(* Entries: the dicts of a batch *)

\* An entry is a record of the fields an analysis reads.  A numeric field
\* holds a number, NoneNum (the key is there with a null value) or Absent
\* (the key is not there).
Absent == <<"absent", 0, 0>>

\* e.get(k) and e.get(k, d) on the value v the entry holds for k.
Get(v) == IF v = Absent THEN NoneNum ELSE v
GetOr(v, d) == IF v = Absent THEN d ELSE v

\* What float(None), None + x and None.lower() raise.
TypeError == [exception |-> "TypeError"]
AttributeError == [exception |-> "AttributeError"]

Raised(result) == "exception" \in DOMAIN result

\* float(x) of every number of a list; raised(list) when one is None.
HasNone(values) == \E k \in 1..Len(values) : values[k] = NoneNum

\* The error rates of the entries.
Rates == {IntNum(0), IntNum(2)}

OptionalRates == {Absent, NoneNum} \cup Rates

----------------------------------------------------------------------------
(* ModelComparator.hybrid_best_case_analysis *)

\* None not in [cer_whisper_norm, cer_wav2vec2_norm]
BothLenient(e) ==
    /\ Get(e.CERWhisperLenient) # NoneNum
    /\ Get(e.CERWav2Vec2Lenient) # NoneNum

\* min(x, y) of two numbers
Min2Mutant(x, y) == x
Min2(x, y) == IF FloatLt(y, x) THEN y ELSE x

\* The first loop (lines 118-142): the list hybrid_cers.
RECURSIVE HybridCers(_)
HybridCers(es) ==
    IF es = <<>> THEN <<>>
    ELSE (IF BothLenient(Head(es))
          THEN <<Min2(Head(es).CERWhisperLenient,
                      Head(es).CERWav2Vec2Lenient)>>
          ELSE <<>>) \o HybridCers(Tail(es))

\* The first loop: the counts of the selections.  winners holds one key
\* when one model has the minimum alone, both keys on a tie.
SelectionMutant(e) ==
    IF FloatLe(e.CERWhisperLenient, e.CERWav2Vec2Lenient)
    THEN "whisper_lenient" ELSE "wav2vec2_lenient"
Selection(e) ==
    LET min_cer == Min2(e.CERWhisperLenient, e.CERWav2Vec2Lenient)
        w == FloatEq(e.CERWhisperLenient, min_cer)
        v == FloatEq(e.CERWav2Vec2Lenient, min_cer)
    IN  IF w /\ ~v THEN "whisper_lenient"
        ELSE IF v /\ ~w THEN "wav2vec2_lenient"
        ELSE "tie"

RECURSIVE SelectionCounts(_)
SelectionCounts(es) ==
    IF es = <<>>
    THEN [whisper_lenient |-> 0, wav2vec2_lenient |-> 0, tie |-> 0]
    ELSE LET rest == SelectionCounts(Tail(es)) IN
         IF BothLenient(Head(es))
         THEN [rest EXCEPT ![Selection(Head(es))] = @ + 1]
         ELSE rest

\* entries[i] for the i of valid_entries_indices (lines 151-157).
ValidEntries(es) == SelectSeq(es, BothLenient)

\* min(config_means.keys(), key=lambda k: config_means[k]) over the means in
\* the order of the dict: the first key whose mean no later mean is below.
RECURSIVE MinKey(_, _, _)
MinKey(keys, means, best) ==
    IF keys = <<>> THEN best
    ELSE MinKey(Tail(keys), means,
                IF FloatLt(means[Head(keys)], means[best])
                THEN Head(keys) ELSE best)

\* (x / total) * 100
Percent(x, total) == FloatMul(FloatDiv(x, total), IntNum(100))

\* Lines 144-224, after the first loop.
HybridReturn(es, cers, counts) ==
    IF Len(cers) = 0
    THEN [error |-> "No valid entries for hybrid analysis - need entries with both lenient CER values"]
    ELSE
    LET valid == ValidEntries(es)
        hybrid_mean_cer == safe_float(Mean(cers), IntNum(0))
        whisper_raw == [k \in 1..Len(valid) |-> GetOr(valid[k].CERWhisper, Inf)]
        wav2vec2_raw ==
            [k \in 1..Len(valid) |-> GetOr(valid[k].CERWav2Vec2, Inf)]
        config_means ==
            [whisper_raw |-> Mean(whisper_raw),
             whisper_normalized |->
                Mean([k \in 1..Len(valid) |-> valid[k].CERWhisperLenient]),
             wav2vec2_raw |-> Mean(wav2vec2_raw),
             wav2vec2_normalized |->
                Mean([k \in 1..Len(valid) |-> valid[k].CERWav2Vec2Lenient])]
        best_config_name ==
            MinKey(<<"whisper_normalized", "wav2vec2_raw",
                     "wav2vec2_normalized">>, config_means, "whisper_raw")
        best_individual_cer ==
            safe_float(config_means[best_config_name], IntNum(0))
        improvement_absolute == FloatSub(best_individual_cer, hybrid_mean_cer)
        improvement_percentage ==
            FloatMul(safe_divide(improvement_absolute, best_individual_cer,
                                 IntNum(0)), IntNum(100))
        total_selections ==
            counts.whisper_lenient + counts.wav2vec2_lenient + counts.tie
        total_non_tie == counts.whisper_lenient + counts.wav2vec2_lenient
        pct(v, total) ==
            IF total > 0
            THEN safe_float(Percent(IntNum(v), IntNum(total)), IntNum(0))
            ELSE IntNum(0)
    IN  IF HasNone(whisper_raw) \/ HasNone(wav2vec2_raw) THEN TypeError
        ELSE [hybrid_mean_cer |-> safe_float(hybrid_mean_cer, IntNum(0)),
              best_individual_cer |->
                  safe_float(best_individual_cer, IntNum(0)),
              best_individual_config |-> best_config_name,
              improvement_absolute |->
                  safe_float(improvement_absolute, IntNum(0)),
              improvement_percentage |->
                  safe_float(improvement_percentage, IntNum(0)),
              selection_counts |-> counts,
              selection_percentages |->
                  [k \in DOMAIN counts |-> pct(counts[k], total_selections)],
              model_preference |->
                  [whisper_pct |-> pct(counts.whisper_lenient, total_non_tie),
                   wav2vec2_pct |->
                       pct(counts.wav2vec2_lenient, total_non_tie),
                   tie_pct |-> pct(counts.tie, total_selections),
                   whisper_count |-> counts.whisper_lenient,
                   wav2vec2_count |-> counts.wav2vec2_lenient,
                   tie_count |-> counts.tie],
              sample_size |-> Len(cers)]

\* The raw CERs an entry may carry next to its lenient ones: none, a null,
\* a raw CER below the lenient ones, and raw CERs at the top of the range.
RawPairs ==
    {<<Absent, Absent>>, <<NoneNum, Absent>>, <<IntNum(0), IntNum(2)>>,
     <<IntNum(2), Absent>>}

HybridEntries ==
    {[CERWhisperLenient |-> a, CERWav2Vec2Lenient |-> b,
      CERWhisper |-> r[1], CERWav2Vec2 |-> r[2]] :
        a \in OptionalRates, b \in OptionalRates, r \in RawPairs}

\* The value of a result variable before the call returns.
NoResult == [pending |-> TRUE]

HybridIdle ==
    /\ hybrid_entries = <<>>
    /\ hybrid_cers = <<>>
    /\ selection_counts = SelectionCounts(<<>>)
    /\ hybrid_result = NoResult

HybridInit ==
    /\ pc = "hybrid"
    /\ hybrid_entries \in SeqsUpTo(HybridEntries, MaxEntries)
    /\ hybrid_cers = <<>>
    /\ selection_counts = SelectionCounts(<<>>)
    /\ hybrid_result = NoResult

HybridBestCase ==
    /\ pc = "hybrid"
    /\ hybrid_cers' = HybridCers(hybrid_entries)
    /\ selection_counts' = SelectionCounts(hybrid_entries)
    /\ hybrid_result' = HybridReturn(hybrid_entries, hybrid_cers',
                                     selection_counts')
    /\ pc' = "hybrid_done"
    /\ UNCHANGED hybrid_entries
    /\ UNCHANGED otherThanHybrid

----------------------------------------------------------------------------
(* WelshTextProcessor.normalize_text *)

\* Characters whose Unicode category starts with P or S (the ones the
\* texts of the model draw on).
PunctuationOrSymbol ==
    {".", ",", "!", "?", ";", ":", "'", "-", "(", ")", "⟨", "⟩", "+", "=",
     "$", "^", "~", "|", "<", ">"}

\* The join of the characters that are neither punctuation nor symbols.
RemovePunctuation(s) == SelectSeq(s, LAMBDA c : c \notin PunctuationOrSymbol)

\* ' '.join(words)
RECURSIVE JoinWords(_)
JoinWords(words) ==
    IF words = <<>> THEN <<>>
    ELSE IF Len(words) = 1 THEN Head(words)
    ELSE Head(words) \o <<" ">> \o JoinWords(Tail(words))

normalize_textMutant(s) == RemovePunctuation(Replace(Lower(s), <<"-">>, <<" ">>))
normalize_text(s) ==
    JoinWords(Split(RemovePunctuation(Replace(Lower(s), <<"-">>, <<" ">>))))

----------------------------------------------------------------------------
(* ModelComparator.error_cost_analysis: calculate_error_costs *)

\* The examples kept of each kind: len(examples) < 5.
MaxExamples == 5

\* asr_matches_target (lines 711-717).  The lenient comparison normalizes
\* the target alone.
asr_matches_targetMutant(e, lenient) == e.asr_field = e.Text
asr_matches_target(e, lenient) ==
    IF lenient THEN e.asr_field = normalize_text(e.Text)
    ELSE normalize_text(e.asr_field) = normalize_text(e.Text)

\* The cost of one entry (lines 705-759): the counter it adds to, "none"
\* for a label that is counted in total_count alone, "skip" for an entry
\* without a label.
CostOfMutant(e, lenient) ==
    IF e.attribution_field = "" THEN "skip"
    ELSE IF e.attribution_field = "USER_ERROR"
         THEN (IF asr_matches_target(e, lenient)
               THEN "false_acceptance" ELSE "true_negative")
    ELSE IF e.attribution_field = "CORRECT"
         THEN (IF asr_matches_target(e, lenient)
               THEN "true_positive" ELSE "false_rejection")
    ELSE IF e.attribution_field = "ASR_ERROR" THEN "false_rejection"
    ELSE "skip"
CostOf(e, lenient) ==
    IF e.attribution_field = "" THEN "skip"
    ELSE IF e.attribution_field = "USER_ERROR"
         THEN (IF asr_matches_target(e, lenient)
               THEN "false_acceptance" ELSE "true_negative")
    ELSE IF e.attribution_field = "CORRECT"
         THEN (IF asr_matches_target(e, lenient)
               THEN "true_positive" ELSE "false_rejection")
    ELSE IF e.attribution_field = "ASR_ERROR" THEN "false_rejection"
    ELSE "none"

\* The costs of the entries of a batch, in batch order.
Costs(es, lenient) == [k \in 1..Len(es) |-> CostOf(es[k], lenient)]

\* The number of entries with a given cost.
CostCount(costs, cost) == Cardinality({k \in DOMAIN costs : costs[k] = cost})

\* The examples of a given cost: the first MaxExamples such entries.
Examples(es, costs, cost) ==
    LET chosen == SelectSeq([k \in 1..Len(es) |-> <<costs[k], es[k]>>],
                            LAMBDA p : p[1] = cost)
        kept == IF Len(chosen) < MaxExamples THEN Len(chosen)
                ELSE MaxExamples
    IN  [k \in 1..kept |-> [target |-> chosen[k][2].Text, human |-> <<>>,
                            asr |-> chosen[k][2].asr_field]]

\* (false_acceptance_count * 3 + false_rejection_count) / total_count * 100
risk_scoreMutant(fa, fr, total) ==
    IF total > 0
    THEN FloatMul(FloatDiv(IntNum(fa + fr), IntNum(total)), IntNum(100))
    ELSE IntNum(0)
risk_score(fa, fr, total) ==
    IF total > 0
    THEN FloatMul(FloatDiv(IntNum(fa * 3 + fr), IntNum(total)), IntNum(100))
    ELSE IntNum(0)

calculate_error_costs(es, lenient) ==
    LET costs == Costs(es, lenient)
        false_acceptance_count == CostCount(costs, "false_acceptance")
        false_rejection_count == CostCount(costs, "false_rejection")
        true_positive_count == CostCount(costs, "true_positive")
        true_negative_count == CostCount(costs, "true_negative")
        total_count == Len(es) - CostCount(costs, "skip")
        rate(count) ==
            safe_float(
                FloatMul(safe_divide(IntNum(count), IntNum(total_count),
                                     IntNum(0)), IntNum(100)), IntNum(0))
        risk == risk_score(false_acceptance_count, false_rejection_count,
                           total_count)
        safety_score == FloatSub(IntNum(100), risk)
    IN  [false_acceptance |->
            [count |-> false_acceptance_count,
             rate |-> rate(false_acceptance_count),
             examples |-> Examples(es, costs, "false_acceptance")],
         false_rejection |->
            [count |-> false_rejection_count,
             rate |-> rate(false_rejection_count),
             examples |-> Examples(es, costs, "false_rejection")],
         true_positive |->
            [count |-> true_positive_count,
             rate |-> rate(true_positive_count)],
         true_negative |->
            [count |-> true_negative_count,
             rate |-> rate(true_negative_count)],
         total_cases |-> total_count,
         pedagogical_risk_score |-> safe_float(risk, IntNum(0)),
         pedagogical_safety_score |-> safe_float(safety_score, IntNum(0))]

\* The labels of the entries; "" is what entry.get(attribution_field, '')
\* yields for an entry without the field.
Attributions == {"CORRECT", "ASR_ERROR", "USER_ERROR", "AMBIGUOUS", ""}

\* The target and the output of an entry: an output that equals the
\* target once the target is normalized, and an output that differs.
TargetAndOutput ==
    {<< <<"A", ".">>, <<"a">> >>, << <<"a">>, <<"b">> >>}

\* For one model: attribution_field and asr_field are the entry's values
\* under f'ErrorAttribution{model_prefix}' and f'Attempt{model_prefix}',
\* with the suffix Lenient when use_lenient.
CostEntries ==
    {[attribution_field |-> a, Text |-> t[1], asr_field |-> t[2]] :
        a \in Attributions, t \in TargetAndOutput}

ErrorCostsIdle ==
    /\ entries_list = <<>>
    /\ use_lenient = FALSE
    /\ cost_result = NoResult

ErrorCostsInit ==
    /\ pc = "error_costs"
    /\ entries_list \in SeqsUpTo(CostEntries, MaxCostEntries)
    /\ use_lenient \in BOOLEAN
    /\ cost_result = NoResult

CalculateErrorCosts ==
    /\ pc = "error_costs"
    /\ cost_result' = calculate_error_costs(entries_list, use_lenient)
    /\ pc' = "error_costs_done"
    /\ UNCHANGED <<entries_list, use_lenient>>
    /\ UNCHANGED otherThanErrorCosts

----------------------------------------------------------------------------
(* ModelComparator.inter_rater_reliability *)

\* A text field holds a string, NoneText (the key is there with a null
\* value) or AbsentText (the key is not there).
AbsentText == <<"absent">>
NoneText == <<"None">>

\* e.get(k, d) on the value v the entry holds for the text field k.
GetText(v, d) == IF v = AbsentText THEN d ELSE v

\* 'HumanTranscription' in e or 'Text' in e
HasReferenceKey(e) == e.HumanTranscription # AbsentText \/ e.Text # AbsentText

\* round(x, 2) of a number.
Round2(x) == IF IsNum(x) THEN Num(RoundHundredths(x[2], x[3]), 100) ELSE x

\* sum(values) / len(values) if values else 0
AverageOrZero(values) ==
    IF values = <<>> THEN IntNum(0)
    ELSE FloatDiv(Sum(values), IntNum(Len(values)))

\* The body of the loop on one entry (lines 459-491): the exception it
\* raises, that it is skipped, or the correctness of the two systems and the
\* average of their error rates.
Judgement(e) ==
    LET reference_text == GetText(e.HumanTranscription, GetText(e.Text, <<>>))
        whisper_text == GetText(e.AttemptWhisper, GetText(e.Attempt, <<>>))
        wav2vec2_text == GetText(e.AttemptWav2Vec2, <<>>)
    IN
    IF NoneText \in {reference_text, whisper_text, wav2vec2_text}
    THEN AttributeError
    ELSE
    LET first == apply_lenient_normalization(normalize_text(reference_text),
                                             normalize_text(whisper_text))
        reference == first[1]
        whisper == first[2]
        second == apply_lenient_normalization(reference,
                                              normalize_text(wav2vec2_text))
        wav2vec2 == second[2]
        whisper_cer == GetOr(e.CERWhisperLenient, GetOr(e.CERWhisper, IntNum(0)))
        wav2vec2_cer ==
            GetOr(e.CERWav2Vec2Lenient, GetOr(e.CERWav2Vec2, IntNum(0)))
    IN
    IF reference = <<>> THEN [skipped |-> TRUE]
    ELSE IF NoneNum \in {whisper_cer, wav2vec2_cer} THEN TypeError
    ELSE [w_correct |-> whisper = reference,
          v_correct |-> wav2vec2 = reference,
          avg_cer |-> FloatDiv(FloatAdd(whisper_cer, wav2vec2_cer), IntNum(2))]

\* The counter a judged entry adds to (lines 493-506).  The first takes the
\* entries only Wav2Vec2 has right for entries both have wrong.
AgreementPatternMutant(judgement) ==
    IF judgement.w_correct /\ judgement.v_correct THEN "both_correct"
    ELSE IF ~judgement.w_correct THEN "both_incorrect"
    ELSE "whisper_only_correct"
AgreementPattern(judgement) ==
    IF judgement.w_correct /\ judgement.v_correct THEN "both_correct"
    ELSE IF ~judgement.w_correct /\ ~judgement.v_correct THEN "both_incorrect"
    ELSE IF judgement.w_correct /\ ~judgement.v_correct THEN "whisper_only_correct"
    ELSE "wav2vec2_only_correct"

inter_rater_reliability(es) ==
    LET judgements == [k \in 1..Len(es) |-> Judgement(es[k])]
        raising == {k \in 1..Len(es) : Raised(judgements[k])}
        judged == SelectSeq(judgements, LAMBDA judgement : "w_correct" \in DOMAIN judgement)
        patterns == [k \in 1..Len(judged) |-> AgreementPattern(judged[k])]
        counter(p) == Cardinality({k \in 1..Len(judged) : patterns[k] = p})
        cers(ps) ==
            LET chosen == SelectSeq([k \in 1..Len(judged) |->
                                        [pattern |-> patterns[k],
                                         avg_cer |-> judged[k].avg_cer]],
                                    LAMBDA c : c.pattern \in ps)
            IN  [k \in 1..Len(chosen) |-> chosen[k].avg_cer]
        total == Len(judged)
        agreements ==
            Cardinality({k \in 1..total :
                            judged[k].w_correct = judged[k].v_correct})
        avg_cer_agree ==
            AverageOrZero(cers({"both_correct", "both_incorrect"}))
        avg_cer_disagree ==
            AverageOrZero(cers({"whisper_only_correct",
                                "wav2vec2_only_correct"}))
    IN
    IF ~\E k \in 1..Len(es) : HasReferenceKey(es[k])
    THEN [error |-> "No reference text available for agreement analysis"]
    ELSE IF raising # {}
    THEN judgements[CHOOSE k \in raising : \A other \in raising : k <= other]
    ELSE IF total = 0
    THEN [error |-> "No valid entries for agreement analysis"]
    ELSE
    [sample_size |-> total,
     agreement_rate |-> FloatDiv(IntNum(agreements), IntNum(total)),
     agreement_counts |->
        [both_correct |-> counter("both_correct"),
         both_incorrect |-> counter("both_incorrect"),
         whisper_only_correct |-> counter("whisper_only_correct"),
         wav2vec2_only_correct |-> counter("wav2vec2_only_correct")],
     cer_breakdown |->
        [avg_cer_when_agree |-> Round2(avg_cer_agree),
         avg_cer_when_disagree |-> Round2(avg_cer_disagree),
         avg_cer_both_correct |-> Round2(AverageOrZero(cers({"both_correct"}))),
         avg_cer_both_incorrect |->
            Round2(AverageOrZero(cers({"both_incorrect"}))),
         cer_difference |->
            Round2(FloatSub(avg_cer_disagree, avg_cer_agree))]]

\* The HumanTranscription and Text of the entries.
ReferenceTexts ==
    {<<AbsentText, AbsentText>>,
     <<AbsentText, <<"A", ".">> >>,
     << <<"a", "b">>, <<"b">> >>,
     << <<".">>, <<"a">> >>,
     <<NoneText, <<"a">> >>}

\* The AttemptWhisper, Attempt and AttemptWav2Vec2 of the entries.
AttemptTexts ==
    {<< <<"a">>, AbsentText, <<"a", " ", "b">> >>,
     <<AbsentText, <<"a", "b">>, <<"b">> >>,
     << <<"b">>, <<"a">>, AbsentText>>,
     << <<"A", "-", "B">>, AbsentText, NoneText>>}

\* The CERWhisperLenient, CERWhisper, CERWav2Vec2Lenient and CERWav2Vec2 of
\* the entries.
AgreementRates ==
    {<<IntNum(0), Absent, IntNum(2), Absent>>,
     <<Absent, IntNum(2), IntNum(2), IntNum(0)>>,
     <<NoneNum, IntNum(0), Absent, Absent>>}

AgreementEntries ==
    {[HumanTranscription |-> r[1], Text |-> r[2],
      AttemptWhisper |-> a[1], Attempt |-> a[2], AttemptWav2Vec2 |-> a[3],
      CERWhisperLenient |-> c[1], CERWhisper |-> c[2],
      CERWav2Vec2Lenient |-> c[3], CERWav2Vec2 |-> c[4]] :
        r \in ReferenceTexts, a \in AttemptTexts, c \in AgreementRates}

AgreementIdle ==
    /\ agreement_entries = <<>>
    /\ agreement_result = NoResult

AgreementInit ==
    /\ pc = "agreement"
    /\ agreement_entries \in SeqsUpTo(AgreementEntries, MaxEntries)
    /\ agreement_result = NoResult

InterRaterReliability ==
    /\ pc = "agreement"
    /\ agreement_result' = inter_rater_reliability(agreement_entries)
    /\ pc' = "agreement_done"
    /\ UNCHANGED agreement_entries
    /\ UNCHANGED otherThanAgreement

----------------------------------------------------------------------------
(* MetricsCalculator._compute_single_metric_stats, compute_metric_statistics *)

\* max(x, y) of two numbers
Max2(x, y) == IF FloatLt(x, y) THEN y ELSE x

\* np.min and np.max of a non-empty list
RECURSIVE ListMin(_)
ListMin(data) ==
    IF Len(data) = 1 THEN data[1] ELSE Min2(Head(data), ListMin(Tail(data)))

RECURSIVE ListMax(_)
ListMax(data) ==
    IF Len(data) = 1 THEN data[1] ELSE Max2(Head(data), ListMax(Tail(data)))

\* sorted(data)
RECURSIVE Insert(_, _)
Insert(x, sorted) ==
    IF sorted = <<>> THEN <<x>>
    ELSE IF FloatLe(x, Head(sorted)) THEN <<x>> \o sorted
    ELSE <<Head(sorted)>> \o Insert(x, Tail(sorted))

RECURSIVE SortNumbers(_)
SortNumbers(data) ==
    IF data = <<>> THEN <<>> ELSE Insert(Head(data), SortNumbers(Tail(data)))

\* np.median of a non-empty list
Median(data) ==
    LET sorted == SortNumbers(data)
        n == Len(data)
    IN  IF n % 2 = 1 THEN sorted[(n + 1) \div 2]
        ELSE FloatDiv(FloatAdd(sorted[n \div 2], sorted[n \div 2 + 1]),
                      IntNum(2))

\* A standard deviation is a square root, which is not rational: a number
\* r that a standard deviation goes into is carried as r * |r|.
\* safe_divide(std, mean) * 100 for the std of the variance v and a mean
\* above 0, carried as its square: 0 when the std is NaN, else
\* 100 * 100 * v / mean^2.
CoefficientOfVariation(v, mean) ==
    IF IsNaN(v) \/ IsInf(v) THEN IntNum(0)
    ELSE IF 100 * 100 * v[2] * mean[3] * mean[3]
               > MaxFloat * MaxFloat * v[3] * mean[2] * mean[2]
         THEN Inf
         ELSE Num(100 * 100 * v[2] * mean[3] * mean[3],
                  v[3] * mean[2] * mean[2])

\* interpret_cohens_d of a d carried as d * |d|.
interpret_cohens_d(dd) ==
    LET abs_dd == IF Sign(dd) < 0 THEN FloatNeg(dd) ELSE dd IN
    IF FloatLt(abs_dd, Num(4, 100)) THEN "negligible"
    ELSE IF FloatLt(abs_dd, Num(25, 100)) THEN "small"
    ELSE IF FloatLt(abs_dd, Num(64, 100)) THEN "medium"
    ELSE "large"

\* The statistics of one list (the model1 and model2 of lines 158-173); std
\* is carried as the variance and cv as its square.
ModelStats(data) ==
    LET mean == Mean(data)
        variance == Variance(data)
    IN  [mean |-> safe_float(mean, IntNum(0)),
         median |-> safe_float(Median(data), IntNum(0)),
         std |-> safe_float(variance, IntNum(0)),
         min |-> safe_float(ListMin(data), IntNum(0)),
         max |-> safe_float(ListMax(data), IntNum(0)),
         cv |-> safe_float(IF FloatLt(IntNum(0), mean)
                           THEN CoefficientOfVariation(variance, mean)
                           ELSE IntNum(0), IntNum(0))]

\* sum(1 for d1, d2 in zip(data1, data2) if d1 < d2): zip stops at the
\* shorter list.
Model1BetterCount(d1, d2) ==
    Cardinality({k \in 1..Len(d1) : k <= Len(d2) /\ FloatLt(d1[k], d2[k])})

\* Lines 151-156: the superiority rate of the first list.
model1_superiority_rate(d1, d2) ==
    FloatMul(safe_divide(IntNum(Model1BetterCount(d1, d2)), IntNum(Len(d1)),
                         IntNum(0)),
             IntNum(100))

\* A dict without keys.
EmptyDict == [k \in {} |-> k]

\* _compute_single_metric_stats under the keys compute_metric_statistics
\* gives it: {} when a list is empty, a TypeError when a list holds None.
SingleMetricStats(d1, d2) ==
    IF Len(d1) = 0 \/ Len(d2) = 0 THEN EmptyDict
    ELSE IF HasNone(d1) \/ HasNone(d2) THEN TypeError
    ELSE
    LET mean1 == Mean(d1)
        mean2 == Mean(d2)
        mean_diff == FloatSub(mean1, mean2)
        percentage_point_diff ==
            IF Sign(mean_diff) < 0 THEN FloatNeg(mean_diff) ELSE mean_diff
        relative_improvement ==
            FloatMul(safe_divide(percentage_point_diff, Max2(mean1, mean2),
                                 IntNum(0)),
                     IntNum(100))
        d == calculate_cohens_d(d1, d2)
        models == [n \in 1..2 |-> ModelStats(<<d1, d2>>[n])]
    IN  [whisper |-> models[1],
         wav2vec2 |-> models[2],
         difference |->
            [mean |-> safe_float(mean_diff, IntNum(0)),
             percentage_point_difference |->
                safe_float(percentage_point_diff, IntNum(0)),
             relative_improvement |->
                safe_float(relative_improvement, IntNum(0))],
         effect_size |-> [cohens_d |-> safe_float(d, IntNum(0)),
                          interpretation |-> interpret_cohens_d(d)],
         whisper_superiority_rate |->
            safe_float(model1_superiority_rate(d1, d2), IntNum(0))]

\* The results of compute_metric_statistics (lines 203-236) from the
\* statistics of its two metrics.
MetricStatistics(stats) ==
    IF Raised(stats.cer) THEN stats.cer
    ELSE IF Raised(stats.wer) THEN stats.wer
    ELSE [cer_analysis |-> stats.cer, wer_analysis |-> stats.wer]

compute_metric_statistics(whisper_wer, wav2vec2_wer, whisper_cer, wav2vec2_cer) ==
    MetricStatistics(
        [m \in {"cer", "wer"} |->
            SingleMetricStats(IF m = "cer" THEN whisper_cer ELSE whisper_wer,
                              IF m = "cer" THEN wav2vec2_cer
                              ELSE wav2vec2_wer)])

----------------------------------------------------------------------------
(* ModelComparator.model_comparison_analysis *)

\* [e.get(k, e.get(fallback, 0)) for e in entries
\*     if e.get(k) is not None or e.get(fallback) is not None]
RECURSIVE RatesWithFallback(_, _, _)
RatesWithFallback(es, k, fallback) ==
    IF es = <<>> THEN <<>>
    ELSE (IF Get(Head(es)[k]) # NoneNum \/ Get(Head(es)[fallback]) # NoneNum
          THEN <<GetOr(Head(es)[k], GetOr(Head(es)[fallback], IntNum(0)))>>
          ELSE <<>>) \o RatesWithFallback(Tail(es), k, fallback)

\* [e.get(k, 0) for e in entries if e.get(k) is not None]
RECURSIVE RatesOf(_, _)
RatesOf(es, k) ==
    IF es = <<>> THEN <<>>
    ELSE (IF Get(Head(es)[k]) # NoneNum THEN <<Head(es)[k]>> ELSE <<>>)
         \o RatesOf(Tail(es), k)

\* data[:n]
Truncate(data, n) == SubSeq(data, 1, IF n < Len(data) THEN n ELSE Len(data))

\* The two lists of a metric, each cut to the length of the shorter
\* (lines 63-78).
PairedLists(a, b) ==
    LET min_len == IF Len(a) < Len(b) THEN Len(a) ELSE Len(b)
    IN  [whisper |-> Truncate(a, min_len), wav2vec2 |-> Truncate(b, min_len)]

\* The eight lists compute_metric_statistics is given (lines 43-78).
ComparisonLists(es) ==
    [wer_raw |-> PairedLists(RatesWithFallback(es, "WERWhisper", "WER"),
                             RatesOf(es, "WERWav2Vec2")),
     cer_raw |-> PairedLists(RatesWithFallback(es, "CERWhisper", "CER"),
                             RatesOf(es, "CERWav2Vec2")),
     wer_norm |-> PairedLists(RatesOf(es, "WERWhisperLenient"),
                              RatesOf(es, "WERWav2Vec2Lenient")),
     cer_norm |-> PairedLists(RatesOf(es, "CERWhisperLenient"),
                              RatesOf(es, "CERWav2Vec2Lenient"))]

\* The returned dict (lines 80-89) from the statistics of the raw and of
\* the normalized metrics.
ComparisonReturn(es, stats) ==
    IF Raised(stats.raw) THEN stats.raw
    ELSE IF Raised(stats.normalized) THEN stats.normalized
    ELSE [sample_size |-> Len(es), raw |-> stats.raw,
          normalized |-> stats.normalized]

model_comparison_analysis(es, lists) ==
    ComparisonReturn(es,
        [m \in {"raw", "normalized"} |->
            LET wer == IF m = "raw" THEN lists.wer_raw ELSE lists.wer_norm
                cer == IF m = "raw" THEN lists.cer_raw ELSE lists.cer_norm
            IN  compute_metric_statistics(wer.whisper, wer.wav2vec2,
                                          cer.whisper, cer.wav2vec2)])

\* The CERWhisper, CER and CERWav2Vec2 of the entries.
RawCers ==
    {<<IntNum(0), Absent, IntNum(2)>>,
     <<IntNum(2), Absent, IntNum(0)>>,
     <<Absent, Absent, IntNum(2)>>,
     <<IntNum(0), IntNum(2), NoneNum>>,
     <<NoneNum, IntNum(2), IntNum(0)>>}

\* The CERWhisperLenient and CERWav2Vec2Lenient of the entries.
LenientCers ==
    {<<IntNum(0), IntNum(2)>>, <<Absent, IntNum(0)>>, <<IntNum(2), NoneNum>>}

\* The WERWhisper, WER and WERWav2Vec2 of the entries.
RawWers == {<<Absent, Absent, Absent>>, <<Absent, IntNum(2), IntNum(0)>>}

\* The WERWhisperLenient and WERWav2Vec2Lenient of the entries.
LenientWers == {<<NoneNum, Absent>>, <<IntNum(0), IntNum(0)>>}

ComparisonEntries ==
    {[CERWhisper |-> c[1], CER |-> c[2], CERWav2Vec2 |-> c[3],
      CERWhisperLenient |-> cl[1], CERWav2Vec2Lenient |-> cl[2],
      WERWhisper |-> w[1], WER |-> w[2], WERWav2Vec2 |-> w[3],
      WERWhisperLenient |-> wl[1], WERWav2Vec2Lenient |-> wl[2]] :
        c \in RawCers, cl \in LenientCers, w \in RawWers, wl \in LenientWers}

ComparisonIdle ==
    /\ comparison_entries = <<>>
    /\ comparison_lists = ComparisonLists(<<>>)
    /\ comparison_result = NoResult

ComparisonInit ==
    /\ pc = "comparison"
    /\ comparison_entries \in SeqsUpTo(ComparisonEntries, MaxEntries)
    /\ comparison_lists = ComparisonLists(<<>>)
    /\ comparison_result = NoResult

ModelComparison ==
    /\ pc = "comparison"
    /\ comparison_lists' = ComparisonLists(comparison_entries)
    /\ comparison_result' =
          model_comparison_analysis(comparison_entries, comparison_lists')
    /\ pc' = "comparison_done"
    /\ UNCHANGED comparison_entries
    /\ UNCHANGED otherThanComparison

----------------------------------------------------------------------------
(* ReportGenerator.executive_summary_analysis *)

\* safe_float(np.mean(values)) if values else 0 (lines 69-72); raised when
\* the list holds None.
MeanOrZero(values) ==
    IF values = <<>> THEN IntNum(0) ELSE safe_float(Mean(values), IntNum(0))

\* The winner of one metric set (lines 150 and 157): no band.
metric_winner(advantage) ==
    IF FloatLt(IntNum(0), advantage) THEN "Whisper" ELSE "Wav2Vec2"

\* Lines 78-80: the overall winner, with the band of 1 percentage point.
overall_winner(raw_advantage) ==
    IF FloatLt(IF Sign(raw_advantage) < 0 THEN FloatNeg(raw_advantage)
               ELSE raw_advantage, IntNum(1))
    THEN "Comparable"
    ELSE IF FloatLt(IntNum(0), raw_advantage) THEN "Whisper" ELSE "Wav2Vec2"

\* The statistics of one metric set but its winner (lines 83-90, 145-158).
MetricSet(whisper_mean, wav2vec2_mean) ==
    LET advantage == FloatSub(wav2vec2_mean, whisper_mean)
        abs_advantage ==
            IF Sign(advantage) < 0 THEN FloatNeg(advantage) ELSE advantage
    IN  [whisper_cer_mean |-> whisper_mean,
         wav2vec2_cer_mean |-> wav2vec2_mean,
         percentage_point_difference |-> abs_advantage,
         relative_improvement |->
            FloatMul(safe_divide(abs_advantage,
                                 Max2(whisper_mean, wav2vec2_mean),
                                 IntNum(0)),
                     IntNum(100)),
         winner |-> metric_winner(advantage)]

\* f"{x:.1f}": the number of tenths nearest to x, as the figure printed.
FormatOneDecimal(x) == Num(RoundHundredths(x[2], 10 * x[3]), 10)

\* The key finding (lines 108-135): the sentence chosen and the figures
\* printed in it.
KeyFinding(winner, raw, normalized) ==
    IF winner = "Comparable"
    THEN [sentence |-> "Models show comparable performance",
          figures |->
             <<FormatOneDecimal(normalized.percentage_point_difference)>>]
    ELSE [sentence |-> winner,
          figures |->
             <<FormatOneDecimal(raw.percentage_point_difference),
               FormatOneDecimal(raw.relative_improvement),
               FormatOneDecimal(normalized.percentage_point_difference),
               FormatOneDecimal(normalized.relative_improvement)>>]

\* The Text of the entries that have one (e.get('Text') is truthy).
WordsOf(es) ==
    LET texts == SelectSeq([k \in 1..Len(es) |-> es[k].Text],
                           LAMBDA t : t \notin {AbsentText, NoneText, <<>>})
    IN  texts

\* The words of the loop of lines 96-100: the stripped Text of every entry
\* where that is not empty.
StrippedWords(es) ==
    SelectSeq([k \in 1..Len(WordsOf(es)) |-> Strip(WordsOf(es)[k])],
              LAMBDA w : w # <<>>)

\* word_counts.values(), or [0]: the recordings of every word.
RecordingsPerWord(es) ==
    LET words == StrippedWords(es)
        keys == {words[k] : k \in 1..Len(words)}
    IN  IF keys = {} THEN {<< <<>>, 0>>}
        ELSE {<<w, Cardinality({k \in 1..Len(words) : words[k] = w})>> :
                 w \in keys}

executive_summary_analysis(es) ==
    IF es = <<>>
    THEN [total_recordings |-> 0, total_words |-> 0,
          date_range |-> "No data", overall_winner |-> "N/A",
          key_finding |-> "No data available for analysis"]
    ELSE
    LET whisper_cer_raw == RatesWithFallback(es, "CERWhisper", "CER")
        wav2vec2_cer_raw == RatesOf(es, "CERWav2Vec2")
        whisper_cer_norm == RatesOf(es, "CERWhisperLenient")
        wav2vec2_cer_norm == RatesOf(es, "CERWav2Vec2Lenient")
        raw == MetricSet(MeanOrZero(whisper_cer_raw),
                         MeanOrZero(wav2vec2_cer_raw))
        normalized == MetricSet(MeanOrZero(whisper_cer_norm),
                                MeanOrZero(wav2vec2_cer_norm))
        winner == overall_winner(FloatSub(raw.wav2vec2_cer_mean,
                                          raw.whisper_cer_mean))
        words == WordsOf(es)
        counts == RecordingsPerWord(es)
        values == {c[2] : c \in counts}
    IN
    IF HasNone(whisper_cer_raw) THEN TypeError
    ELSE IF \E k \in 1..Len(es) : es[k].Text = NoneText THEN AttributeError
    ELSE
    [total_recordings |-> Len(es),
     total_words |-> Cardinality({words[k] : k \in 1..Len(words)}),
     avg_recordings_per_word |->
        Round2(safe_divide(IntNum(Len(StrippedWords(es))),
                           IntNum(Cardinality(counts)), IntNum(0))),
     min_recordings_per_word |-> CHOOSE v \in values : \A u \in values : v <= u,
     max_recordings_per_word |-> CHOOSE v \in values : \A u \in values : v >= u,
     overall_winner |-> winner,
     key_finding |-> KeyFinding(winner, raw, normalized),
     raw_metrics |-> raw,
     normalized_metrics |-> normalized]

\* The CERWhisper, CER and CERWav2Vec2 of the entries, in percent.
SummaryRawCers ==
    {<<IntNum(10), Absent, Num(21, 2)>>,
     <<IntNum(12), Absent, IntNum(10)>>,
     <<Absent, IntNum(10), Absent>>,
     <<NoneNum, IntNum(10), IntNum(12)>>}

\* The CERWhisperLenient and CERWav2Vec2Lenient of the entries, in percent.
SummaryLenientCers ==
    {<<IntNum(10), IntNum(10)>>, <<Num(21, 2), IntNum(10)>>,
     <<Absent, IntNum(12)>>}

\* The Text of the entries.
SummaryTexts == {AbsentText, <<"a">>, <<" ", "a">>, NoneText}

SummaryEntries ==
    {[CERWhisper |-> c[1], CER |-> c[2], CERWav2Vec2 |-> c[3],
      CERWhisperLenient |-> cl[1], CERWav2Vec2Lenient |-> cl[2],
      Text |-> t] :
        c \in SummaryRawCers, cl \in SummaryLenientCers, t \in SummaryTexts}

SummaryIdle ==
    /\ summary_entries = <<>>
    /\ summary_result = NoResult

SummaryInit ==
    /\ pc = "summary"
    /\ summary_entries \in SeqsUpTo(SummaryEntries, MaxEntries)
    /\ summary_result = NoResult

ExecutiveSummary ==
    /\ pc = "summary"
    /\ summary_result' = executive_summary_analysis(summary_entries)
    /\ pc' = "summary_done"
    /\ UNCHANGED summary_entries
    /\ UNCHANGED otherThanSummary

----------------------------------------------------------------------------
(* LinguisticAnalyzer._analyze_model_errors_by_category *)

\* Lines 52-57: the counters and the confusion dictionary of one category as
\* the call allocates them, and the dictionary of the four categories.  A
\* confusion dictionary is a sequence of entries [expected, actual, count] in
\* insertion order.
NewStats == [total |-> 0, errors |-> 0, confusion |-> <<>>]
NewCategoryStats ==
    [vowel |-> NewStats, consonant |-> NewStats, digraph |-> NewStats,
     all |-> NewStats]

\* not reference, not hypothesis: a missing key gives '', a null gives None.
Falsy(value) == value \in {AbsentText, NoneText, <<>>}

\* Lines 112-117 and 120-125: the counters of one category after one
\* operation; is_error = (ref_char != hyp_char).
TallyOneMutant(stats, op) ==
    [total |-> stats.total + 1,
     errors |-> stats.errors + 1,
     confusion |-> stats.confusion]
TallyOne(stats, op) ==
    LET is_error == op.expected # op.actual
        at == {k \in 1..Len(stats.confusion) :
                  /\ stats.confusion[k].expected = op.expected
                  /\ stats.confusion[k].actual = op.actual}
    IN  [total |-> stats.total + 1,
         errors |-> IF is_error THEN stats.errors + 1 ELSE stats.errors,
         confusion |->
            IF ~is_error THEN stats.confusion
            ELSE IF at = {}
            THEN Append(stats.confusion,
                        [expected |-> op.expected, actual |-> op.actual,
                         count |-> 1])
            ELSE [k \in 1..Len(stats.confusion) |->
                    IF k \in at
                    THEN [stats.confusion[k] EXCEPT
                            !.count = stats.confusion[k].count + 1]
                    ELSE stats.confusion[k]]]

\* Lines 107-125: one operation updates the category of its expected token,
\* when that is one of the dictionary's, and the category "all".
TallyOperation(stats, op) ==
    [c \in DOMAIN stats |->
        IF c = classify_token(op.expected) \/ c = "all"
        THEN TallyOne(stats[c], op)
        ELSE stats[c]]

\* for operation, ref_char, hyp_char in alignment, from the k-th on.
RECURSIVE TallyAlignment(_, _, _)
TallyAlignment(stats, alignment, k) ==
    IF k > Len(alignment) THEN stats
    ELSE TallyAlignment(TallyOperation(stats, alignment[k]), alignment, k + 1)

\* Lines 64-73: the reference and the hypothesis of an entry.  Attempt is the
\* entry's value under model_field, AttemptLenient the one under
\* f'{model_field}Lenient'.
ReferenceOf(entry) == entry.Text
HypothesisOf(entry, apply_lenient) ==
    IF apply_lenient THEN entry.AttemptLenient ELSE entry.Attempt

\* if not reference or not hypothesis: skipped_count += 1; continue
Skipped(entry, apply_lenient) ==
    Falsy(ReferenceOf(entry)) \/ Falsy(HypothesisOf(entry, apply_lenient))

\* Lines 80-103: the texts of the mode, their tokens, the alignment.
EntryAlignment(entry, apply_lenient, use_strict) ==
    compute_character_alignment(
        tokenize_welsh(IF use_strict THEN ReferenceOf(entry)
                       ELSE normalize_text(ReferenceOf(entry))),
        tokenize_welsh(IF use_strict \/ apply_lenient
                       THEN HypothesisOf(entry, apply_lenient)
                       ELSE normalize_text(HypothesisOf(entry, apply_lenient))))

\* for entry in entries, from the k-th on: category_stats after the loop.
RECURSIVE TallyEntries(_, _, _, _, _)
TallyEntries(stats, es, k, apply_lenient, use_strict) ==
    IF k > Len(es) THEN stats
    ELSE IF Skipped(es[k], apply_lenient)
    THEN TallyEntries(stats, es, k + 1, apply_lenient, use_strict)
    ELSE TallyEntries(
            TallyAlignment(stats,
                           EntryAlignment(es[k], apply_lenient, use_strict), 1),
            es, k + 1, apply_lenient, use_strict)

\* skipped_count after the loop.
SkippedCount(es, apply_lenient) ==
    Cardinality({k \in 1..Len(es) : Skipped(es[k], apply_lenient)})

\* sorted(stats["confusion"].items(), key=lambda x: x[1], reverse=True): a
\* stable sort, so entries of equal count keep their insertion order.
RECURSIVE SortByCount(_)
SortByCount(confusion) ==
    IF confusion = <<>> THEN <<>>
    ELSE LET rest == SortByCount(SubSeq(confusion, 1, Len(confusion) - 1))
             last == confusion[Len(confusion)]
             before == {k \in 1..Len(rest) : rest[k].count >= last.count}
         IN  [k \in 1..(Len(rest) + 1) |->
                IF k <= Cardinality(before) THEN rest[k]
                ELSE IF k = Cardinality(before) + 1 THEN last
                ELSE rest[k - 1]]

\* sorted_pairs[:15]
TopConfusions == 15

\* Lines 137-162: the result of one category.
CategoryResult(stats) ==
    [error_rate |->
        safe_float(FloatMul(safe_divide(IntNum(stats.errors),
                                        IntNum(stats.total), IntNum(0)),
                            IntNum(100)),
                   IntNum(0)),
     total_characters |-> stats.total,
     error_count |-> stats.errors,
     confusion_matrix |->
        SubSeq(SortByCount(stats.confusion), 1,
               IF Len(stats.confusion) > TopConfusions
               THEN TopConfusions ELSE Len(stats.confusion))]

\* Lines 128-175: the returned dictionary.
CategoryResults(stats) ==
    [vowels |-> CategoryResult(stats.vowel),
     consonants |-> CategoryResult(stats.consonant),
     digraphs |-> CategoryResult(stats.digraph),
     overall |-> CategoryResult(stats.all)]

\* The call as one function of its arguments.
analyze_model_errors_by_category(es, apply_lenient, use_strict) ==
    CategoryResults(TallyEntries(NewCategoryStats, es, 1, apply_lenient, use_strict))

\* The target, the raw output and the lenient output of the entries: a
\* difference of capitalization only, of punctuation only, an inserted
\* consonant, a deleted digraph, a substituted w, a swap of two consonant
\* and vowel tokens, and entries with a missing, null or empty text.
LinguisticCases ==
    {<< <<"A", "b">>, <<"a", "b">>, <<"a", "b">> >>,
     << <<"a", ".">>, <<"a">>, <<"a">> >>,
     << <<"a">>, <<"b", "a">>, <<"a">> >>,
     << <<"a", "l", "l">>, <<"a">>, <<"a">> >>,
     << <<"w">>, <<"a">>, <<"a">> >>,
     << <<"a", "b">>, <<"b", "a">>, <<"b", "a">> >>,
     << AbsentText, <<"a">>, <<"a">> >>,
     << <<"a">>, NoneText, AbsentText >>,
     << <<"b">>, <<>>, <<"b">> >>}

LinguisticEntries ==
    {[Text |-> c[1], Attempt |-> c[2], AttemptLenient |-> c[3]] :
        c \in LinguisticCases}

\* The modes linguistic_pattern_analysis calls with (strict, lenient) and
\* the default one (neither flag).
LinguisticModes ==
    {[apply_lenient |-> FALSE, use_strict |-> TRUE],
     [apply_lenient |-> TRUE, use_strict |-> FALSE],
     [apply_lenient |-> FALSE, use_strict |-> FALSE]}

LinguisticIdle ==
    /\ linguistic_entries = <<>>
    /\ linguistic_mode = [apply_lenient |-> FALSE, use_strict |-> FALSE]
    /\ category_stats = NewCategoryStats
    /\ skipped_count = 0
    /\ linguistic_result = NoResult

LinguisticInit ==
    /\ pc = "linguistic"
    /\ linguistic_entries \in SeqsUpTo(LinguisticEntries, MaxEntries)
    /\ linguistic_mode \in LinguisticModes
    /\ category_stats = NewCategoryStats
    /\ skipped_count = 0
    /\ linguistic_result = NoResult

AnalyzeModelErrors ==
    /\ pc = "linguistic"
    /\ category_stats' =
          TallyEntries(NewCategoryStats, linguistic_entries, 1,
                       linguistic_mode.apply_lenient, linguistic_mode.use_strict)
    /\ skipped_count' =
          SkippedCount(linguistic_entries, linguistic_mode.apply_lenient)
    /\ linguistic_result' = CategoryResults(category_stats')
    /\ pc' = "linguistic_done"
    /\ UNCHANGED <<linguistic_entries, linguistic_mode, otherThanLinguistic>>

----------------------------------------------------------------------------
(* WelshTextProcessor.normalize_text applied to a text and to its result *)

\* Upper-case letters (Unicode category Lu, str.isupper() true) that have no
\* lower-case form, so that str.lower() leaves them: U+03D2 of 471 such.
UppercaseOnly == {"ϒ"}

\* str.isupper() on one character.
IsUpperChar(c) ==
    \/ \E k \in 1..Len(UpperLetters) : UpperLetters[k] = c
    \/ c \in UppercaseOnly

\* Characters of the texts handed to normalize_text: letters of both cases,
\* a hyphen, a full stop, a space and a tab.
NormalizeAlphabet == {"A", "a", "ϒ", "-", ".", " ", "\t"}

NormalizeIdle ==
    /\ raw_text = <<>>
    /\ normalized_text = <<>>
    /\ renormalized_text = <<>>

NormalizeInit ==
    /\ pc = "normalize"
    /\ raw_text \in SeqsUpTo(NormalizeAlphabet, MaxTextLen)
    /\ normalized_text = <<>>
    /\ renormalized_text = <<>>

\* normalized = normalize_text(raw_text)
Normalize ==
    /\ pc = "normalize"
    /\ normalized_text' = normalize_text(raw_text)
    /\ pc' = "normalized"
    /\ UNCHANGED <<raw_text, renormalized_text, otherThanNormalize>>

\* renormalized = normalize_text(normalized)
NormalizeAgain ==
    /\ pc = "normalized"
    /\ renormalized_text' = normalize_text(normalized_text)
    /\ pc' = "renormalized"
    /\ UNCHANGED <<raw_text, normalized_text, otherThanNormalize>>

NormalizeNext == Normalize \/ NormalizeAgain

----------------------------------------------------------------------------
(* StatisticalAnalyzer: calls on the shared analyzer *)

\* Lines 46-57: the fields of the analyzer; each holds a component that has
\* no fields but references to other components.
NewAnalyzer ==
    [text_processor |-> "WelshTextProcessor",
     metrics_calc |-> "MetricsCalculator",
     error_analyzer |-> "ErrorAnalyzer",
     linguistic_analyzer |-> "LinguisticAnalyzer",
     model_comparator |-> "ModelComparator",
     report_generator |-> "ReportGenerator",
     word_analyzer |-> "WordAnalyzer"]

\* The records of the batches: target, raw and lenient output, label.
SessionEntries ==
    {[Text |-> <<"A", "b">>, Attempt |-> <<"a", "b">>,
      AttemptLenient |-> <<"a", "b">>, ErrorAttribution |-> "CORRECT"],
     [Text |-> <<"a">>, Attempt |-> <<"b", "a">>,
      AttemptLenient |-> <<"a">>, ErrorAttribution |-> "ASR_ERROR"]}

\* The entry points called and the arguments they hand on:
\* linguistic_pattern_analysis (lines 172-174) calls
\* _analyze_model_errors_by_category in strict and in lenient mode,
\* error_cost_analysis (lines 212-214) calls calculate_error_costs on the raw
\* and on the lenient fields.
LinguisticCalls == {"linguistic_raw", "linguistic_normalized"}
ErrorCostCalls == {"error_costs_raw", "error_costs_normalized"}

\* The fields calculate_error_costs reads of an entry.
CostView(entry, lenient) ==
    [attribution_field |-> entry.ErrorAttribution, Text |-> entry.Text,
     asr_field |-> IF lenient THEN entry.AttemptLenient ELSE entry.Attempt]

SessionIdle ==
    /\ analyzer = NewAnalyzer
    /\ batches = <<>>
    /\ ingested = <<>>
    /\ call_stats = NoResult
    /\ returned = <<>>
    /\ calls = 0

\* analyzer = StatisticalAnalyzer(); the caller holds two batches, the second
\* of at most one record.
SessionInit ==
    /\ pc = "session"
    /\ analyzer = NewAnalyzer
    /\ batches \in {<<b1, b2>> : b1 \in SeqsUpTo(SessionEntries, MaxEntries),
                                b2 \in SeqsUpTo(SessionEntries, 1)}
    /\ ingested = batches
    /\ call_stats = NoResult
    /\ returned =
          [b \in 1..2 |->
              [c \in LinguisticCalls \cup ErrorCostCalls |-> <<>>]]
    /\ calls = 0

\* One call of _analyze_model_errors_by_category on a batch: category_stats
\* is allocated (lines 52-57), filled and turned into the result.  The
\* entries are read with entry.get alone.
SessionLinguisticMutant ==
    /\ pc = "session"
    /\ calls < MaxCalls
    /\ \E b \in 1..2, c \in LinguisticCalls :
          /\ call_stats' =
                TallyEntries(IF call_stats = NoResult THEN NewCategoryStats
                             ELSE call_stats,
                             batches[b], 1, c = "linguistic_normalized",
                             c = "linguistic_raw")
          /\ returned' = [returned EXCEPT
                ![b][c] = Append(@, CategoryResults(call_stats'))]
    /\ calls' = calls + 1
    /\ UNCHANGED <<pc, analyzer, batches, ingested, otherThanSession>>
SessionLinguistic ==
    /\ pc = "session"
    /\ calls < MaxCalls
    /\ \E b \in 1..2, c \in LinguisticCalls :
          /\ call_stats' =
                TallyEntries(NewCategoryStats, batches[b], 1,
                             c = "linguistic_normalized", c = "linguistic_raw")
          /\ returned' = [returned EXCEPT
                ![b][c] = Append(@, CategoryResults(call_stats'))]
    /\ calls' = calls + 1
    /\ UNCHANGED <<pc, analyzer, batches, ingested, otherThanSession>>

\* One call of calculate_error_costs on a batch: its counters and example
\* lists are locals of the call (model_comparison.py lines 681-689).
SessionErrorCosts ==
    /\ pc = "session"
    /\ calls < MaxCalls
    /\ \E b \in 1..2, c \in ErrorCostCalls :
          returned' = [returned EXCEPT
             ![b][c] = Append(@,
                calculate_error_costs(
                   [k \in 1..Len(batches[b]) |->
                       CostView(batches[b][k], c = "error_costs_normalized")],
                   c = "error_costs_normalized"))]
    /\ calls' = calls + 1
    /\ UNCHANGED <<pc, analyzer, batches, ingested, call_stats,
                   otherThanSession>>

SessionNext == SessionLinguistic \/ SessionErrorCosts

----------------------------------------------------------------------------
(* Specifications *)

\* Each call starts with the variables of the other components idle.
InitAlign ==
    AlignInit /\ TokenizeIdle /\ ClassifyIdle /\ LenientIdle /\
    StatsIdle /\ SafeDivideIdle /\ CohensDIdle /\ HybridIdle /\
    ErrorCostsIdle /\ AgreementIdle /\ ComparisonIdle /\ SummaryIdle /\
    LinguisticIdle /\ NormalizeIdle /\ SessionIdle

InitTokenize ==
    TokenizeInit /\ AlignIdle /\ ClassifyIdle /\ LenientIdle /\
    StatsIdle /\ SafeDivideIdle /\ CohensDIdle /\ HybridIdle /\
    ErrorCostsIdle /\ AgreementIdle /\ ComparisonIdle /\ SummaryIdle /\
    LinguisticIdle /\ NormalizeIdle /\ SessionIdle

InitClassify ==
    ClassifyInit /\ AlignIdle /\ TokenizeIdle /\ LenientIdle /\
    StatsIdle /\ SafeDivideIdle /\ CohensDIdle /\ HybridIdle /\
    ErrorCostsIdle /\ AgreementIdle /\ ComparisonIdle /\ SummaryIdle /\
    LinguisticIdle /\ NormalizeIdle /\ SessionIdle

InitLenient ==
    LenientInit /\ AlignIdle /\ TokenizeIdle /\ ClassifyIdle /\
    StatsIdle /\ SafeDivideIdle /\ CohensDIdle /\ HybridIdle /\
    ErrorCostsIdle /\ AgreementIdle /\ ComparisonIdle /\ SummaryIdle /\
    LinguisticIdle /\ NormalizeIdle /\ SessionIdle

InitStats ==
    StatsInit /\ AlignIdle /\ TokenizeIdle /\ ClassifyIdle /\
    LenientIdle /\ SafeDivideIdle /\ CohensDIdle /\ HybridIdle /\
    ErrorCostsIdle /\ AgreementIdle /\ ComparisonIdle /\ SummaryIdle /\
    LinguisticIdle /\ NormalizeIdle /\ SessionIdle

InitSafeDivide ==
    SafeDivideInit /\ AlignIdle /\ TokenizeIdle /\ ClassifyIdle /\
    LenientIdle /\ StatsIdle /\ CohensDIdle /\ HybridIdle /\
    ErrorCostsIdle /\ AgreementIdle /\ ComparisonIdle /\ SummaryIdle /\
    LinguisticIdle /\ NormalizeIdle /\ SessionIdle

InitCohensD ==
    CohensDInit /\ AlignIdle /\ TokenizeIdle /\ ClassifyIdle /\
    LenientIdle /\ StatsIdle /\ SafeDivideIdle /\ HybridIdle /\
    ErrorCostsIdle /\ AgreementIdle /\ ComparisonIdle /\ SummaryIdle /\
    LinguisticIdle /\ NormalizeIdle /\ SessionIdle

InitHybrid ==
    HybridInit /\ AlignIdle /\ TokenizeIdle /\ ClassifyIdle /\
    LenientIdle /\ StatsIdle /\ SafeDivideIdle /\ CohensDIdle /\
    ErrorCostsIdle /\ AgreementIdle /\ ComparisonIdle /\ SummaryIdle /\
    LinguisticIdle /\ NormalizeIdle /\ SessionIdle

InitErrorCosts ==
    ErrorCostsInit /\ AlignIdle /\ TokenizeIdle /\ ClassifyIdle /\
    LenientIdle /\ StatsIdle /\ SafeDivideIdle /\ CohensDIdle /\
    HybridIdle /\ AgreementIdle /\ ComparisonIdle /\ SummaryIdle /\
    LinguisticIdle /\ NormalizeIdle /\ SessionIdle

InitAgreement ==
    AgreementInit /\ AlignIdle /\ TokenizeIdle /\ ClassifyIdle /\
    LenientIdle /\ StatsIdle /\ SafeDivideIdle /\ CohensDIdle /\
    HybridIdle /\ ErrorCostsIdle /\ ComparisonIdle /\ SummaryIdle /\
    LinguisticIdle /\ NormalizeIdle /\ SessionIdle

InitComparison ==
    ComparisonInit /\ AlignIdle /\ TokenizeIdle /\ ClassifyIdle /\
    LenientIdle /\ StatsIdle /\ SafeDivideIdle /\ CohensDIdle /\
    HybridIdle /\ ErrorCostsIdle /\ AgreementIdle /\ SummaryIdle /\
    LinguisticIdle /\ NormalizeIdle /\ SessionIdle

InitSummary ==
    SummaryInit /\ AlignIdle /\ TokenizeIdle /\ ClassifyIdle /\
    LenientIdle /\ StatsIdle /\ SafeDivideIdle /\ CohensDIdle /\
    HybridIdle /\ ErrorCostsIdle /\ AgreementIdle /\ ComparisonIdle /\
    LinguisticIdle /\ NormalizeIdle /\ SessionIdle

InitLinguistic ==
    LinguisticInit /\ AlignIdle /\ TokenizeIdle /\ ClassifyIdle /\
    LenientIdle /\ StatsIdle /\ SafeDivideIdle /\ CohensDIdle /\
    HybridIdle /\ ErrorCostsIdle /\ AgreementIdle /\ ComparisonIdle /\
    SummaryIdle /\ NormalizeIdle /\ SessionIdle

InitNormalize ==
    NormalizeInit /\ AlignIdle /\ TokenizeIdle /\ ClassifyIdle /\
    LenientIdle /\ StatsIdle /\ SafeDivideIdle /\ CohensDIdle /\
    HybridIdle /\ ErrorCostsIdle /\ AgreementIdle /\ ComparisonIdle /\
    SummaryIdle /\ LinguisticIdle /\ SessionIdle

InitSession ==
    SessionInit /\ AlignIdle /\ TokenizeIdle /\ ClassifyIdle /\
    LenientIdle /\ StatsIdle /\ SafeDivideIdle /\ CohensDIdle /\
    HybridIdle /\ ErrorCostsIdle /\ AgreementIdle /\ ComparisonIdle /\
    SummaryIdle /\ LinguisticIdle /\ NormalizeIdle

SpecAlign == InitAlign /\ [][AlignNext]_vars

\* The statements of the backtrace loop and the return that follows it.
BacktraceLoop ==
    \/ BacktraceMatch
    \/ BacktraceSubstitution
    \/ BacktraceDeletion
    \/ BacktraceInsertion
    \/ ReverseAndReturn

\* The loop is sequential code of one call: once the backtrace has started,
\* an iteration (or the return) that can be taken is taken.
SpecAlignFair == InitAlign /\ [][AlignNext]_vars /\ WF_vars(BacktraceLoop)

SpecTokenize == InitTokenize /\ [][Tokenize]_vars

SpecClassify == InitClassify /\ [][Classify]_vars

SpecLenient == InitLenient /\ [][LenientMatch]_vars

SpecStats == InitStats /\ [][StatsNext]_vars

SpecSafeDivide == InitSafeDivide /\ [][SafeDivide]_vars

SpecCohensD == InitCohensD /\ [][CohensD]_vars

SpecHybrid == InitHybrid /\ [][HybridBestCase]_vars

SpecErrorCosts == InitErrorCosts /\ [][CalculateErrorCosts]_vars
SpecAgreement == InitAgreement /\ [][InterRaterReliability]_vars
SpecComparison == InitComparison /\ [][ModelComparison]_vars
SpecSummary == InitSummary /\ [][ExecutiveSummary]_vars
SpecLinguistic == InitLinguistic /\ [][AnalyzeModelErrors]_vars
SpecNormalize == InitNormalize /\ [][NormalizeNext]_vars
SpecSession == InitSession /\ [][SessionNext]_vars

----------------------------------------------------------------------------
(* Claims about compute_character_alignment *)

\* The values of one side of the operations, read in order, empty ones skipped.
SideValues(ops, side) ==
    LET kept == SelectSeq(ops, LAMBDA o : o[side] # Empty)
    IN  [k \in 1..Len(kept) |-> kept[k][side]]

\* The number of operations of kind op.
CountOps(ops, op) == Cardinality({k \in 1..Len(ops) : ops[k].operation = op})

\* Unit-cost edit distance between the first r tokens of t and the first c of
\* a, by the textbook recursion (no table).
RECURSIVE Levenshtein(_, _, _, _)
Levenshtein(t, a, r, c) ==
    IF r = 0 THEN c
    ELSE IF c = 0 THEN r
    ELSE Min3(Levenshtein(t, a, r - 1, c) + 1,
              Levenshtein(t, a, r, c - 1) + 1,
              Levenshtein(t, a, r - 1, c - 1) + (IF t[r] = a[c] THEN 0 ELSE 1))

EditDistance(t, a) == Levenshtein(t, a, Len(t), Len(a))

\* C1: in the returned operation list the non-empty actual sides, in order,
\* are exactly the hypothesis and the non-empty expected sides exactly the
\* reference; a deletion has an empty actual side, an insertion an empty
\* expected side, and a match or substitution has both sides.
C1_AlignCoversBothInputs ==
    pc = "align_done" =>
        /\ SideValues(alignments, "actual") = asr_tokens
        /\ SideValues(alignments, "expected") = target_tokens
        /\ \A k \in 1..Len(alignments) :
              LET o == alignments[k] IN
              /\ o.operation \in {"match", "substitution", "deletion", "insertion"}
              /\ o.operation = "deletion" => o.actual = Empty /\ o.expected # Empty
              /\ o.operation = "insertion" => o.expected = Empty /\ o.actual # Empty
              /\ o.operation \in {"match", "substitution"} =>
                    o.expected # Empty /\ o.actual # Empty

\* A finished alignment holding a deletion, an insertion and a match.
C1_Witness ==
    /\ pc = "align_done"
    /\ CountOps(alignments, "deletion") > 0
    /\ CountOps(alignments, "insertion") > 0
    /\ CountOps(alignments, "match") > 0

\* C2 as stated: the total number of returned operations equals the
\* independently computed edit distance.
C2_TotalOpsEqualEditDistance ==
    pc = "align_done" => Len(alignments) = EditDistance(target_tokens, asr_tokens)

\* C2 amended: the total number of returned operations equals the
\* independently computed edit distance plus the number of matches, that is,
\* the non-match operations alone number the edit distance.
C2_TotalOpsEqualDistancePlusMatches ==
    pc = "align_done" =>
        Len(alignments) =
            EditDistance(target_tokens, asr_tokens) + CountOps(alignments, "match")

\* A finished alignment of two different sequences that holds a match and a
\* substitution (reference c,a,t against c,a,r in the small).
C2_Witness ==
    /\ pc = "align_done"
    /\ Len(target_tokens) = 3
    /\ CountOps(alignments, "match") = 2
    /\ CountOps(alignments, "substitution") = 1

\* C3: aligning a sequence with itself returns exactly len(ref) operations,
\* all of them matches.
C3_SelfAlignOnlyMatches ==
    (pc = "align_done" /\ target_tokens = asr_tokens) =>
        /\ Len(alignments) = Len(target_tokens)
        /\ \A k \in 1..Len(alignments) : alignments[k].operation = "match"

\* A finished self-alignment of a sequence with a repeated token.
C3_Witness ==
    /\ pc = "align_done"
    /\ target_tokens = asr_tokens
    /\ Len(target_tokens) >= 2
    /\ target_tokens[1] = target_tokens[2]
    /\ Len(alignments) = Len(target_tokens)

----------------------------------------------------------------------------
(* Claims about tokenize_welsh *)

DigraphSet == {WELSH_DIGRAPHS[k] : k \in 1..Len(WELSH_DIGRAPHS)}

\* The tokenization the claim describes, as one greedy left-to-right scan of
\* the text from position p on: two adjacent characters spelling a cluster
\* are one bracketed token, a character of ws yields no token, any other
\* character is a token of its own.
RECURSIVE GreedyTokens(_, _, _)
GreedyTokens(s, p, ws) ==
    IF p > Len(s) THEN <<>>
    ELSE IF p < Len(s) /\ <<s[p], s[p + 1]>> \in DigraphSet
         THEN <<Marker(<<s[p], s[p + 1]>>)>> \o GreedyTokens(s, p + 2, ws)
         ELSE (IF s[p] \in ws THEN <<>> ELSE << <<s[p]>> >>)
                 \o GreedyTokens(s, p + 1, ws)

\* C4 as stated: for a bracket-free text every cluster occurrence is exactly
\* one bracketed token, whitespace yields no token, and no two adjacent
\* characters spelling a cluster come out as two single-character tokens.
C4_TokenizerNeverSplitsClusters ==
    pc = "tokenized" =>
        tokens = GreedyTokens(Strip(Lower(text)), 1, PyWhitespace)

\* What the code does instead: only space, tab and newline are dropped; the
\* clusters are kept whole as claimed.
TokenizerDropsOnlyScanSkipped ==
    pc = "tokenized" =>
        tokens = GreedyTokens(Strip(Lower(text)), 1, ScanSkipped)

----------------------------------------------------------------------------
(* Claims about apply_lenient_normalization *)

\* s without its whitespace characters.
WithoutWhitespace(s) == SelectSeq(s, LAMBDA c : c \notin PyWhitespace)

\* s without its space characters.
WithoutSpaces(s) == SelectSeq(s, LAMBDA c : c # " ")

\* C5 as stated: if removing all whitespace from both strings makes them
\* identical, the result is (reference, reference).
C5_WhitespaceInsensitiveMatch ==
    (pc = "lenient_done"
        /\ WithoutWhitespace(target) = WithoutWhitespace(transcription)) =>
        lenient_result = <<target, target>>

\* C5 amended: if removing all space characters from both strings makes them
\* identical and leaves something, the result is (reference, reference).
C5_SpaceInsensitiveNonEmptyMatch ==
    (pc = "lenient_done"
        /\ WithoutSpaces(target) = WithoutSpaces(transcription)
        /\ WithoutSpaces(target) # <<>>) =>
        lenient_result = <<target, target>>

\* Two different strings, equal once their spaces are removed, both returned
\* as the reference.
C5_Witness ==
    /\ pc = "lenient_done"
    /\ target # transcription
    /\ WithoutSpaces(target) = WithoutSpaces(transcription)
    /\ Contains(target, " ")
    /\ lenient_result = <<target, target>>

\* The first whitespace-delimited word of h is w: h is some whitespace, then
\* w, then the end of h or a whitespace character.
FirstWordIs(h, w) ==
    /\ w # <<>>
    /\ \A k \in 1..Len(w) : w[k] \notin PyWhitespace
    /\ \E lead \in 0..Len(h) :
          /\ \A k \in 1..lead : h[k] \in PyWhitespace
          /\ lead + Len(w) <= Len(h)
          /\ SubSeq(h, lead + 1, lead + Len(w)) = w
          /\ (lead + Len(w) = Len(h) \/ h[lead + Len(w) + 1] \in PyWhitespace)

\* C6: when the whitespace-insensitive rule does not apply (the strings
\* differ with their spaces removed, or nothing is left of them), the result
\* is (reference, reference) if the reference is a single token and is the
\* first whitespace-delimited word of the hypothesis, and both inputs
\* unchanged in every other case; for different inputs that is an "if and
\* only if".
C6_FirstWordRule ==
    (pc = "lenient_done"
        /\ ~(WithoutSpaces(target) = WithoutSpaces(transcription)
                /\ WithoutSpaces(target) # <<>>)) =>
        LET credited == ~Contains(target, " ")
                            /\ FirstWordIs(transcription, target)
        IN  /\ lenient_result =
                  (IF credited THEN <<target, target>>
                               ELSE <<target, transcription>>)
            /\ target # transcription =>
                  (lenient_result = <<target, target>> <=> credited)

\* A single-token reference credited against a longer hypothesis that starts
\* with it as a word ("rhyw" against "rhyw reswm wrth" in the small).
C6_Witness ==
    /\ pc = "lenient_done"
    /\ target = <<"a">>
    /\ transcription = <<"a", " ", "b">>
    /\ lenient_result = <<target, target>>

----------------------------------------------------------------------------
(* Claims about classify_token *)

\* The category of a single character looked up as it is in the two sets.
CharCategory(c) ==
    IF c \in WELSH_VOWELS THEN "vowel"
    ELSE IF c \in WELSH_CONSONANTS THEN "consonant"
    ELSE "other"

Wrapped(t) == Len(t) >= 2 /\ Head(t) = "⟨" /\ t[Len(t)] = "⟩"

\* C7 as stated: a bracket-wrapped token is a cluster, a single character
\* has the category of its lower-case form, anything else is "other".
C7_ClassifyCaseInsensitive ==
    pc = "classified" =>
        category = (IF Wrapped(token) THEN "digraph"
                    ELSE IF Len(token) = 1 THEN CharCategory(LowerChar(token[1]))
                    ELSE "other")

\* C7 amended: a bracket-wrapped token is a cluster, a single character is
\* looked up exactly as it is (so an upper-case letter is "other"), and
\* anything else is "other".
C7_ClassifyExactMatch ==
    pc = "classified" =>
        /\ category = "digraph" <=> Wrapped(token)
        /\ category = "vowel" <=> (Len(token) = 1 /\ token[1] \in WELSH_VOWELS)
        /\ category = "consonant" <=>
              (Len(token) = 1 /\ token[1] \in WELSH_CONSONANTS)
        /\ category \in {"digraph", "vowel", "consonant", "other"}
        /\ (Len(token) = 1 /\ LowerChar(token[1]) # token[1]) => category = "other"

\* An upper-case vowel classified "other".
C7_Witness ==
    /\ pc = "classified"
    /\ token = <<"A">>
    /\ category = "other"

----------------------------------------------------------------------------
(* Claims about build_error_stats *)

\* The side whose category a filter looks at: the actual token of an
\* insertion, the expected token of any other operation.
RelevantSide(op) == IF op.operation = "insertion" THEN op.actual ELSE op.expected

\* Whether an operation is included under the call's filter.
Included(op) ==
    token_filter = None \/ classify_token(RelevantSide(op)) = token_filter

\* The included operations among those taken so far.
IncludedOps == SelectSeq(all_alignments, LAMBDA o : Included(o))

\* The sum of the counts of a confusion list.
RECURSIVE SumCounts(_)
SumCounts(matrix) ==
    IF matrix = <<>> THEN 0 ELSE Head(matrix).count + SumCounts(Tail(matrix))

\* C8: a unit's total counts the included operations with that non-empty
\* expected side, its errors the non-matches among them, a confusion entry the
\* included non-matches of its pair; so 0 <= errors <= total, total > 0, the
\* confusion counts sum to the number of included non-matches and every error
\* rate lies in [0, 100].
C8_TalliesCountIncludedOperations ==
    LET inc == IncludedOps
        withUnit(u) == {k \in 1..Len(inc) :
                           inc[k].expected # Empty /\ Display(inc[k].expected) = u}
        nonMatch == {k \in 1..Len(inc) : inc[k].operation # "match"}
        units == {Display(inc[k].expected) :
                     k \in {q \in 1..Len(inc) : inc[q].expected # Empty}}
    IN  pc \in {"stats", "stats_done"} =>
        /\ DOMAIN per_character = units
        /\ \A u \in units :
              /\ per_character[u].total = Cardinality(withUnit(u))
              /\ per_character[u].errors = Cardinality(withUnit(u) \cap nonMatch)
              /\ 0 <= per_character[u].errors
              /\ per_character[u].errors <= per_character[u].total
              /\ per_character[u].total > 0
              /\ pc = "stats_done" =>
                    /\ per_character[u].error_rate >= 0
                    /\ per_character[u].error_rate <= 100 * 100
        /\ SumCounts(confusion_matrix) = Cardinality(nonMatch)
        /\ \A k \in 1..Len(confusion_matrix) :
              confusion_matrix[k].count =
                  Cardinality({q \in nonMatch :
                      /\ Display(inc[q].expected) = confusion_matrix[k].expected
                      /\ Display(inc[q].actual) = confusion_matrix[k].actual})
        /\ pc = "stats_done" =>
              SumCounts(confusion_matrix_list) = Cardinality(nonMatch)

\* A finished call in which one unit was matched once and missed once (error
\* rate 50.00) and an insertion was tallied as a confusion only.
C8_Witness ==
    /\ pc = "stats_done"
    /\ \E u \in DOMAIN per_character :
          /\ per_character[u].total = 2
          /\ per_character[u].errors = 1
          /\ per_character[u].error_rate = 5000
    /\ \E k \in 1..Len(all_alignments) : all_alignments[k].operation = "insertion"
    /\ SumCounts(confusion_matrix_list) = 2

\* C9: with a filter set, the operation an iteration takes changes the
\* per-unit totals or the confusion tallies if and only if the category of
\* its relevant side equals the filter; an operation failing the test changes
\* neither.
C9_FilterKeyedOnRelevantSide ==
    [][(pc = "stats" /\ pc' = "stats" /\ token_filter # None
            /\ Len(all_alignments') = Len(all_alignments) + 1) =>
        LET op == all_alignments'[Len(all_alignments')] IN
        (classify_token(RelevantSide(op)) = token_filter) <=>
            (per_character' # per_character \/ confusion_matrix' # confusion_matrix)
      ]_vars

\* Under the vowel filter a consonant insertion was left out and a vowel
\* insertion tallied.
C9_Witness ==
    /\ pc = "stats"
    /\ token_filter = "vowel"
    /\ all_alignments =
          << [operation |-> "insertion", expected |-> Empty, actual |-> <<"b">>],
             [operation |-> "insertion", expected |-> Empty, actual |-> <<"a">>] >>
    /\ confusion_matrix =
          << [expected |-> Empty, actual |-> <<"a">>, count |-> 1] >>
    /\ DOMAIN per_character = {}

\* The position in the operations taken at which a confusion pair was first
\* seen among the included non-matches.
FirstSeen(e, a) ==
    LET at == {k \in 1..Len(all_alignments) :
                  /\ Included(all_alignments[k])
                  /\ all_alignments[k].operation # "match"
                  /\ Display(all_alignments[k].expected) = e
                  /\ Display(all_alignments[k].actual) = a}
    IN  CHOOSE k \in at : \A q \in at : k <= q

\* C10: the emitted confusion list is sorted by count, descending, and
\* entries of equal count are in first-seen order.
C10_ConfusionListSortedByCount ==
    pc = "stats_done" =>
        \A x, y \in 1..Len(confusion_matrix_list) :
            x < y =>
                /\ confusion_matrix_list[x].count >= confusion_matrix_list[y].count
                /\ confusion_matrix_list[x].count = confusion_matrix_list[y].count =>
                      FirstSeen(confusion_matrix_list[x].expected,
                                confusion_matrix_list[x].actual)
                        < FirstSeen(confusion_matrix_list[y].expected,
                                    confusion_matrix_list[y].actual)

\* What the code emits instead: the entries in first-seen order, whatever
\* their counts.
ConfusionListInFirstSeenOrder ==
    pc = "stats_done" =>
        \A x, y \in 1..Len(confusion_matrix_list) :
            x < y =>
                FirstSeen(confusion_matrix_list[x].expected,
                          confusion_matrix_list[x].actual)
                  < FirstSeen(confusion_matrix_list[y].expected,
                              confusion_matrix_list[y].actual)

----------------------------------------------------------------------------
(* Claims about safe_divide *)

\* The quotient of two operands is not a finite number: both are infinite,
\* the numerator alone is infinite, or the exact quotient lies beyond the
\* largest float.
QuotientNotFinite(num, den) ==
    \/ IsInf(num)
    \/ /\ IsNum(num) /\ IsNum(den) /\ den[2] # 0
       /\ Abs(num[2]) * den[3] > MaxFloat * num[3] * Abs(den[2])

\* x is the exact quotient num/den of two operands with a finite quotient.
IsQuotient(x, num, den) ==
    /\ IsNum(x)
    /\ IF IsInf(den) THEN x[2] = 0
       ELSE x[2] * num[3] * den[2] = num[2] * den[3] * x[3]

\* C11: safe_divide(x, 0) is the default for every x; with a finite default
\* the result is never NaN or infinite; the result is the default when the
\* denominator is 0, when an operand is NaN or when the quotient is NaN or
\* infinite, and the quotient in every other case.
C11_SafeDivideNeverNonFinite ==
    pc = "safe_divide_done" =>
        LET undefined == \/ FloatEq(denominator, IntNum(0))
                         \/ IsNaN(denominator)
                         \/ IsNaN(numerator)
                         \/ QuotientNotFinite(numerator, denominator)
        IN  /\ FloatEq(denominator, IntNum(0)) => safe_divide_result = default
            /\ IsNum(default) => IsNum(safe_divide_result)
            /\ undefined => safe_divide_result = default
            /\ ~undefined =>
                  IsQuotient(safe_divide_result, numerator, denominator)

\* A division of the largest float by a fraction overflows and yields a
\* default that differs from the overflowed quotient.
C11_Witness ==
    /\ pc = "safe_divide_done"
    /\ numerator = IntNum(MaxFloat)
    /\ denominator = Num(1, 2)
    /\ default = IntNum(-1)
    /\ safe_divide_result = IntNum(-1)

----------------------------------------------------------------------------
(* Claims about calculate_cohens_d *)

\* The sum of the numerators of a list of whole numbers.
RECURSIVE Total(_)
Total(data) == IF data = <<>> THEN 0 ELSE Head(data)[2] + Total(Tail(data))

\* mean(a) > mean(b) for two non-empty lists of whole numbers.
MeanGreater(a, b) == Total(a) * Len(b) > Total(b) * Len(a)

\* The pooled standard deviation of two groups is 0: neither group varies.
PooledStdZero(a, b) ==
    /\ \A x, y \in 1..Len(a) : a[x] = a[y]
    /\ \A x, y \in 1..Len(b) : b[x] = b[y]

\* C12: cohensD(A, A) = 0.0 and cohensD(A, B) = -cohensD(B, A); the result
\* is 0.0 when a group has fewer than 2 values or the pooled standard
\* deviation is 0, and otherwise positive exactly when mean(A) > mean(B).
C12_CohensDSignAndSymmetry ==
    pc = "cohens_d_done" =>
        /\ data1 = data2 => cohens_d = IntNum(0)
        /\ cohens_d = FloatNeg(calculate_cohens_d(data2, data1))
        /\ IF Len(data1) < 2 \/ Len(data2) < 2 \/ PooledStdZero(data1, data2)
           THEN cohens_d = IntNum(0)
           ELSE /\ IsNum(cohens_d)
                /\ Sign(cohens_d) > 0 <=> MeanGreater(data1, data2)
                /\ Sign(cohens_d) < 0 <=> MeanGreater(data2, data1)

\* Two different groups of two values each, the first with the larger
\* mean: d = (2 - 1/2) / sqrt(5/4), carried as its square 9/5.
C12_Witness ==
    /\ pc = "cohens_d_done"
    /\ data1 = <<IntNum(1), IntNum(3)>>
    /\ data2 = <<IntNum(0), IntNum(1)>>
    /\ cohens_d = Num(9, 5)

----------------------------------------------------------------------------
(* Claims about hybrid_best_case_analysis *)

\* The entry carries the lenient CER of both models.
HasBothLenient(e) ==
    e.CERWhisperLenient \in Rates /\ e.CERWav2Vec2Lenient \in Rates

\* The entries of a batch that carry both lenient CERs, in batch order.
MatchedSubset(es) == SelectSeq(es, HasBothLenient)

\* The whole-number values of one field over a list of entries, summed.
RECURSIVE FieldTotal(_, _)
FieldTotal(es, field) ==
    IF es = <<>> THEN 0 ELSE Head(es)[field][2] + FieldTotal(Tail(es), field)

Returned(result) == "sample_size" \in DOMAIN result

\* C13: when at least one entry carries both lenient CERs, the reported
\* hybrid mean is at most the mean of either model's lenient CER over the
\* same entries.  (A mean p/q is at most a total over n entries when
\* p * n <= total * q.)
C13_HybridMeanAtMostEitherMean ==
    pc = "hybrid_done" /\ MatchedSubset(hybrid_entries) # <<>>
                       /\ ~Raised(hybrid_result) =>
        /\ Returned(hybrid_result)
        /\ LET m == hybrid_result.hybrid_mean_cer
               matched == MatchedSubset(hybrid_entries)
           IN  /\ IsNum(m)
               /\ m[2] * Len(matched)
                      <= FieldTotal(matched, "CERWhisperLenient") * m[3]
               /\ m[2] * Len(matched)
                      <= FieldTotal(matched, "CERWav2Vec2Lenient") * m[3]

\* Each model is the better one once: the hybrid mean 0 lies strictly below
\* both means, which are 1.
C13_Witness ==
    /\ pc = "hybrid_done"
    /\ Len(hybrid_entries) = 2
    /\ hybrid_entries[1].CERWhisperLenient = IntNum(0)
    /\ hybrid_entries[1].CERWav2Vec2Lenient = IntNum(2)
    /\ hybrid_entries[2].CERWhisperLenient = IntNum(2)
    /\ hybrid_entries[2].CERWav2Vec2Lenient = IntNum(0)
    /\ Returned(hybrid_result)
    /\ hybrid_result.hybrid_mean_cer = IntNum(0)

\* The number of entries of a list that satisfy Test.
Count(es, Test(_)) == Len(SelectSeq(es, Test))

WhisperBelow(e) == e.CERWhisperLenient[2] < e.CERWav2Vec2Lenient[2]
Wav2Vec2Below(e) == e.CERWav2Vec2Lenient[2] < e.CERWhisperLenient[2]
BothEqual(e) == e.CERWhisperLenient[2] = e.CERWav2Vec2Lenient[2]

\* C14: an entry is included exactly when it carries both lenient CERs; its
\* hybrid value is the smaller of the two; it counts for the model with the
\* strictly smaller CER, or as a tie; the three counts add up to
\* sample_size, the number of included entries.  With no entry included
\* the call returns its error marker instead of the counts.
C14_HybridSelectionPartition ==
    pc = "hybrid_done" =>
        LET matched == MatchedSubset(hybrid_entries) IN
        /\ Len(hybrid_cers) = Len(matched)
        /\ \A k \in 1..Len(matched) :
              /\ IsNum(hybrid_cers[k])
              /\ hybrid_cers[k][3] = 1
              /\ hybrid_cers[k][2] <= matched[k].CERWhisperLenient[2]
              /\ hybrid_cers[k][2] <= matched[k].CERWav2Vec2Lenient[2]
              /\ hybrid_cers[k] \in {matched[k].CERWhisperLenient,
                                     matched[k].CERWav2Vec2Lenient}
        /\ selection_counts.whisper_lenient = Count(matched, WhisperBelow)
        /\ selection_counts.wav2vec2_lenient = Count(matched, Wav2Vec2Below)
        /\ selection_counts.tie = Count(matched, BothEqual)
        /\ selection_counts.whisper_lenient
             + selection_counts.wav2vec2_lenient + selection_counts.tie
               = Len(matched)
        /\ Returned(hybrid_result) =>
              /\ hybrid_result.sample_size = Len(matched)
              /\ hybrid_result.selection_counts = selection_counts
        /\ matched = <<>> <=> "error" \in DOMAIN hybrid_result

\* One win for Whisper and one tie, both entries included.
C14_Witness ==
    /\ pc = "hybrid_done"
    /\ Len(hybrid_entries) = 2
    /\ hybrid_entries[1].CERWhisperLenient = IntNum(0)
    /\ hybrid_entries[1].CERWav2Vec2Lenient = IntNum(2)
    /\ hybrid_entries[2].CERWhisperLenient = IntNum(2)
    /\ hybrid_entries[2].CERWav2Vec2Lenient = IntNum(2)
    /\ Returned(hybrid_result)
    /\ hybrid_result.sample_size = 2
    /\ hybrid_result.selection_counts =
          [whisper_lenient |-> 1, wav2vec2_lenient |-> 0, tie |-> 1]

----------------------------------------------------------------------------
(* Claims about calculate_error_costs *)

\* The output of an entry equals its target, as texts are compared: after
\* normalization.
OutputEqualsTarget(e) == normalize_text(e.asr_field) = normalize_text(e.Text)

\* The output of an entry matches its target under the comparison the call
\* at hand makes: the normalized output against the normalized target, or
\* with use_lenient the output as it is against the normalized target.
Accepted(e) ==
    IF use_lenient THEN e.asr_field = normalize_text(e.Text)
    ELSE OutputEqualsTarget(e)

\* The batch of the example: four entries labelled CORRECT, CORRECT,
\* ASR_ERROR, USER_ERROR whose outputs equal, differ from, differ from and
\* equal the target, under a given reading of "equal".
FourSampleExample(Equal(_)) ==
    /\ Len(entries_list) = 4
    /\ entries_list[1].attribution_field = "CORRECT"
    /\ entries_list[2].attribution_field = "CORRECT"
    /\ entries_list[3].attribution_field = "ASR_ERROR"
    /\ entries_list[4].attribution_field = "USER_ERROR"
    /\ Equal(entries_list[1])
    /\ ~Equal(entries_list[2])
    /\ ~Equal(entries_list[3])
    /\ Equal(entries_list[4])

\* C15 as claimed: on the batch of the example the call reports exactly
\* 1 false rejection, exactly 1 false acceptance and the risk score
\* (3*1+1)/4*100 = 100.
C15_ExampleOneRejectionRisk100 ==
    pc = "error_costs_done" /\ FourSampleExample(OutputEqualsTarget) =>
        /\ cost_result.false_rejection.count = 1
        /\ cost_result.false_acceptance.count = 1
        /\ cost_result.pedagogical_risk_score = IntNum(100)

\* C15 as amended: on the batch of the example, with outputs that match or
\* fail to match under the call's own comparison, the call reports exactly
\* 2 false rejections (the CORRECT entry whose output differs and the
\* ASR_ERROR entry), exactly 1 false acceptance, 1 true positive, and the
\* risk score (3*1+2)/4*100 = 125.
C15_ExampleTwoRejectionsRisk125 ==
    pc = "error_costs_done" /\ FourSampleExample(Accepted) =>
        /\ cost_result.false_rejection.count = 2
        /\ cost_result.false_acceptance.count = 1
        /\ cost_result.true_positive.count = 1
        /\ cost_result.true_negative.count = 0
        /\ cost_result.total_cases = 4
        /\ cost_result.pedagogical_risk_score = IntNum(125)

C15_Witness ==
    /\ pc = "error_costs_done"
    /\ FourSampleExample(Accepted)
    /\ cost_result.false_rejection.count = 2
    /\ cost_result.pedagogical_risk_score = IntNum(125)

\* lo <= x <= hi for a number x and whole numbers lo and hi.
InRange(x, lo, hi) == IsNum(x) /\ lo * x[3] <= x[2] /\ x[2] <= hi * x[3]

\* The entry carries a label.
Labelled(e) == e.attribution_field # ""

IsFalseAcceptance(e) == e.attribution_field = "USER_ERROR" /\ Accepted(e)
IsFalseRejection(e) ==
    \/ e.attribution_field = "ASR_ERROR"
    \/ e.attribution_field = "CORRECT" /\ ~Accepted(e)

\* C16 as claimed: the four rates, the risk score and the safety score lie
\* in [0,100]; with no labelled entry the four rates and the risk score
\* are 0.
C16_RatesAndScoresWithin0And100 ==
    pc = "error_costs_done" =>
        /\ InRange(cost_result.false_acceptance.rate, 0, 100)
        /\ InRange(cost_result.false_rejection.rate, 0, 100)
        /\ InRange(cost_result.true_positive.rate, 0, 100)
        /\ InRange(cost_result.true_negative.rate, 0, 100)
        /\ InRange(cost_result.pedagogical_risk_score, 0, 100)
        /\ InRange(cost_result.pedagogical_safety_score, 0, 100)
        /\ Count(entries_list, Labelled) = 0 =>
              /\ cost_result.false_acceptance.rate = IntNum(0)
              /\ cost_result.false_rejection.rate = IntNum(0)
              /\ cost_result.true_positive.rate = IntNum(0)
              /\ cost_result.true_negative.rate = IntNum(0)
              /\ cost_result.pedagogical_risk_score = IntNum(0)

\* C16 as amended: the four rates lie in [0,100]; the risk score is
\* (3 * false acceptances + false rejections) / total * 100 and lies in
\* [0,300]; the safety score is 100 - risk and lies in [-200,100]; with no
\* labelled entry the four rates and the risk score are 0 and the safety
\* score is 100.
C16_RatesWithin100RiskWithin300 ==
    pc = "error_costs_done" =>
        LET total == Count(entries_list, Labelled)
            risk == cost_result.pedagogical_risk_score
            safety == cost_result.pedagogical_safety_score
        IN  /\ InRange(cost_result.false_acceptance.rate, 0, 100)
            /\ InRange(cost_result.false_rejection.rate, 0, 100)
            /\ InRange(cost_result.true_positive.rate, 0, 100)
            /\ InRange(cost_result.true_negative.rate, 0, 100)
            /\ InRange(risk, 0, 300)
            /\ InRange(safety, -200, 100)
            /\ risk[2] * total =
                  (3 * Count(entries_list, IsFalseAcceptance)
                     + Count(entries_list, IsFalseRejection)) * 100 * risk[3]
            /\ FloatAdd(risk, safety) = IntNum(100)
            /\ total = 0 =>
                  /\ cost_result.false_acceptance.rate = IntNum(0)
                  /\ cost_result.false_rejection.rate = IntNum(0)
                  /\ cost_result.true_positive.rate = IntNum(0)
                  /\ cost_result.true_negative.rate = IntNum(0)
                  /\ risk = IntNum(0)
                  /\ safety = IntNum(100)

\* Every labelled entry is a false acceptance: the risk score is 300 and
\* the safety score -200.
C16_Witness ==
    /\ pc = "error_costs_done"
    /\ cost_result.total_cases = 2
    /\ cost_result.false_acceptance.count = 2
    /\ cost_result.pedagogical_risk_score = IntNum(300)
    /\ cost_result.pedagogical_safety_score = IntNum(-200)

----------------------------------------------------------------------------
(* Claims about inter_rater_reliability *)

\* The normalized reference of an entry: its HumanTranscription, else its
\* Text, else the empty string.
NormalizedReference(e) ==
    normalize_text(GetText(e.HumanTranscription, GetText(e.Text, <<>>)))

\* A system is correct on an entry: its leniently matched output equals the
\* reference.
LenientlyCorrect(e, output) ==
    apply_lenient_normalization(NormalizedReference(e),
                                normalize_text(output))[2]
        = NormalizedReference(e)

WhisperCorrect(e) ==
    LenientlyCorrect(e, GetText(e.AttemptWhisper, GetText(e.Attempt, <<>>)))

Wav2Vec2Correct(e) == LenientlyCorrect(e, GetText(e.AttemptWav2Vec2, <<>>))

\* The samples of the batch with a non-empty normalized reference.
Samples ==
    {k \in 1..Len(agreement_entries) :
        NormalizedReference(agreement_entries[k]) # <<>>}

\* C17: a call that returns statistics counts every sample with a non-empty
\* normalized reference in exactly one of both_correct, both_incorrect,
\* whisper_only_correct and wav2vec2_only_correct, by whether each system's
\* leniently matched output equals the reference; the four counts sum to
\* sample_size, and agreement_rate is (both_correct + both_incorrect) /
\* sample_size, between 0 and 1.  A call that raises nothing returns
\* statistics exactly when there is such a sample.
C17_AgreementPartitionsSamples ==
    pc = "agreement_done" /\ ~Raised(agreement_result) =>
        LET counts == agreement_result.agreement_counts
            rate == agreement_result.agreement_rate
            class(w, v) ==
                Cardinality({k \in Samples :
                    /\ WhisperCorrect(agreement_entries[k]) = w
                    /\ Wav2Vec2Correct(agreement_entries[k]) = v})
        IN  /\ Samples # {} <=> "sample_size" \in DOMAIN agreement_result
            /\ Samples # {} =>
                /\ agreement_result.sample_size = Cardinality(Samples)
                /\ counts.both_correct = class(TRUE, TRUE)
                /\ counts.both_incorrect = class(FALSE, FALSE)
                /\ counts.whisper_only_correct = class(TRUE, FALSE)
                /\ counts.wav2vec2_only_correct = class(FALSE, TRUE)
                /\ counts.both_correct + counts.both_incorrect
                     + counts.whisper_only_correct
                     + counts.wav2vec2_only_correct
                   = agreement_result.sample_size
                /\ rate = Num(counts.both_correct + counts.both_incorrect,
                              agreement_result.sample_size)
                /\ FloatLe(IntNum(0), rate) /\ FloatLe(rate, IntNum(1))

\* A batch of two samples, one that both systems have right and one that
\* only Wav2Vec2 has right: the agreement rate is 1/2.
C17_Witness ==
    /\ pc = "agreement_done"
    /\ "sample_size" \in DOMAIN agreement_result
    /\ agreement_result.sample_size = 2
    /\ agreement_result.agreement_counts.both_correct = 1
    /\ agreement_result.agreement_counts.wav2vec2_only_correct = 1
    /\ agreement_result.agreement_rate = Num(1, 2)

----------------------------------------------------------------------------
(* Claims about missing fields *)

\* C18: an operation of the comparator returns a result and raises nothing,
\* whatever fields of the entries of the batch are absent or null: here
\* hybrid_best_case_analysis, on every batch of entries whose four error
\* rates are each a number, null or absent.
C18_HybridNeverRaises ==
    pc = "hybrid_done" => ~Raised(hybrid_result)

----------------------------------------------------------------------------
(* Claims about model_comparison_analysis *)

\* The first of two fields of an entry that holds a number, None if neither
\* does.
FirstRate(e, k, fallback) ==
    IF Get(e[k]) # NoneNum THEN e[k] ELSE Get(e[fallback])

\* The pairs of the samples that have both systems' rates, in the order of
\* the batch.
SameSamplePairs(es, A(_), B(_)) ==
    LET both == SelectSeq([k \in 1..Len(es) |-> k],
                          LAMBDA k : A(es[k]) # NoneNum /\ B(es[k]) # NoneNum)
    IN  [n \in 1..Len(both) |-> <<A(es[both[n]]), B(es[both[n]])>>]

\* The compared lists of a metric are the pairs of the samples that have
\* both rates, and the superiority rate of a returned analysis is the share
\* of those pairs with A < B, in percent.
PairsSameSamples(lists, analysis, A(_), B(_)) ==
    LET pairs == SameSamplePairs(comparison_entries, A, B)
        below == Cardinality({k \in 1..Len(pairs) :
                                 FloatLt(pairs[k][1], pairs[k][2])})
    IN  /\ lists.whisper = [k \in 1..Len(pairs) |-> pairs[k][1]]
        /\ lists.wav2vec2 = [k \in 1..Len(pairs) |-> pairs[k][2]]
        /\ pairs # <<>> =>
              analysis.whisper_superiority_rate
                  = Percent(IntNum(below), IntNum(Len(pairs)))

\* C19: in a call that returns, for every metric, a sample that lacks either
\* system's rate is skipped, so the k-th compared pair holds the two rates
\* of one sample, and the superiority rate is the share of those
\* same-sample pairs with A < B.
C19_PairsHoldOneSample ==
    pc = "comparison_done" /\ ~Raised(comparison_result) =>
        /\ PairsSameSamples(comparison_lists.cer_norm,
                            comparison_result.normalized.cer_analysis,
                            LAMBDA e : Get(e.CERWhisperLenient),
                            LAMBDA e : Get(e.CERWav2Vec2Lenient))
        /\ PairsSameSamples(comparison_lists.wer_norm,
                            comparison_result.normalized.wer_analysis,
                            LAMBDA e : Get(e.WERWhisperLenient),
                            LAMBDA e : Get(e.WERWav2Vec2Lenient))
        /\ PairsSameSamples(comparison_lists.cer_raw,
                            comparison_result.raw.cer_analysis,
                            LAMBDA e : FirstRate(e, "CERWhisper", "CER"),
                            LAMBDA e : Get(e.CERWav2Vec2))
        /\ PairsSameSamples(comparison_lists.wer_raw,
                            comparison_result.raw.wer_analysis,
                            LAMBDA e : FirstRate(e, "WERWhisper", "WER"),
                            LAMBDA e : Get(e.WERWav2Vec2))

----------------------------------------------------------------------------
(* Claims about executive_summary_analysis *)

\* The winner by the comparable band: "Comparable" when the two mean error
\* rates differ by less than 1 percentage point, else the system with the
\* strictly lower rate.
BandWinner(whisper_mean, wav2vec2_mean) ==
    LET difference == FloatSub(whisper_mean, wav2vec2_mean) IN
    IF FloatLt(difference, IntNum(1)) /\ FloatLt(IntNum(-1), difference)
    THEN "Comparable"
    ELSE IF FloatLt(whisper_mean, wav2vec2_mean) THEN "Whisper"
    ELSE "Wav2Vec2"

\* C20: in a returned executive summary of a non-empty batch, the overall
\* winner and the winner of the raw and of the normalized metric set are
\* each the winner by the comparable band of the two means compared.
C20_WinnersUseComparableBand ==
    pc = "summary_done" /\ "raw_metrics" \in DOMAIN summary_result =>
        LET raw == summary_result.raw_metrics
            normalized == summary_result.normalized_metrics
        IN  /\ summary_result.overall_winner
                 = BandWinner(raw.whisper_cer_mean, raw.wav2vec2_cer_mean)
            /\ raw.winner
                 = BandWinner(raw.whisper_cer_mean, raw.wav2vec2_cer_mean)
            /\ normalized.winner
                 = BandWinner(normalized.whisper_cer_mean,
                              normalized.wav2vec2_cer_mean)

----------------------------------------------------------------------------
(* Claims about the backtrace of compute_character_alignment *)

\* C22: the backtrace starts at cell (m, n), ends at (0, 0), takes at each
\* cell the first applicable step in the order match, substitution, deletion,
\* insertion, and returns the operations in forward order: the list the loop
\* returns equals the walk of the operator PreferenceWalk, which implements
\* this preference order by recursion on the cell.
C22_BacktraceFollowsPreferenceOrder ==
    /\ (pc = "backtrack" /\ alignments = <<>>) =>
          i = Len(target_tokens) /\ j = Len(asr_tokens)
    /\ pc = "align_done" =>
          /\ i = 0
          /\ j = 0
          /\ alignments =
                PreferenceWalk(dp, target_tokens, asr_tokens,
                               Len(target_tokens), Len(asr_tokens))

\* A finished alignment of (a, b) against (b, a): at cell (2, 2) substitution,
\* deletion and insertion all apply and the substitution is taken, twice.
C22_Witness ==
    /\ pc = "align_done"
    /\ target_tokens = <<<<"a">>, <<"b">>>>
    /\ asr_tokens = <<<<"b">>, <<"a">>>>
    /\ dp[2][2] = dp[1][2] + 1
    /\ dp[2][2] = dp[2][1] + 1
    /\ CountOps(alignments, "substitution") = 2

\* The number of operations of a list that are not matches.
NonMatches(ops) == Len(ops) - CountOps(ops, "match")

\* C25: the number of non-match operations of the returned list equals
\* dp[m][n], which is the Levenshtein distance of the two sequences; all along
\* the backtrace the non-matches taken so far plus the cost of the current cell
\* make dp[m][n], so the walk stays on a minimum-cost path although the match
\* branch compares no costs.
C25_NonMatchesEqualTableDistance ==
    pc \in {"backtrack", "align_done"} =>
        /\ dp[Len(target_tokens)][Len(asr_tokens)] =
              EditDistance(target_tokens, asr_tokens)
        /\ NonMatches(alignments) + dp[i][j] =
              dp[Len(target_tokens)][Len(asr_tokens)]
        /\ pc = "align_done" =>
              NonMatches(alignments) = dp[Len(target_tokens)][Len(asr_tokens)]

\* A finished alignment whose walk took a match at a cell where a deletion
\* step had the same cost as the cell (reference b, a against a, a at (2, 2))
\* and ended with distance 1.
C25_Witness ==
    /\ pc = "align_done"
    /\ Len(target_tokens) = 3
    /\ Len(asr_tokens) = 2
    /\ CountOps(alignments, "match") = 2
    /\ CountOps(alignments, "deletion") = 1
    /\ dp[3][2] = 1

\* Some branch of the if / elif chain applies.
SomeBranchApplies == CondMatch \/ CondSubstitution \/ CondDeletion \/ CondInsertion

\* C26: the backtrace loop terminates for every pair of token sequences: at
\* every cell other than (0, 0) one of the four branches applies, each
\* iteration strictly decreases i + j, at most m + n iterations run, and the
\* call reaches its return, where the loop has ended at (0, 0).
C26_BacktraceTerminates ==
    /\ [](InLoop => SomeBranchApplies)
    /\ [](pc = "backtrack" =>
            Len(alignments) + i + j <= Len(target_tokens) + Len(asr_tokens))
    /\ [][(pc = "backtrack" /\ pc' = "backtrack") => i' + j' < i + j]_vars
    /\ [](pc = "align_done" => i = 0 /\ j = 0)
    /\ (pc = "backtrack") ~> (pc = "align_done")

\* The loop about to end at (0, 0) after m + n iterations: a reference of
\* several tokens against an empty hypothesis, walked by deletions only.
C26_Witness ==
    /\ pc = "backtrack"
    /\ i = 0
    /\ j = 0
    /\ asr_tokens = <<>>
    /\ Len(target_tokens) >= 2
    /\ Len(alignments) = Len(target_tokens) + Len(asr_tokens)

----------------------------------------------------------------------------
(* Claims about the linguistic analysis *)

\* The hypothesis of the entry differs from its reference, and only in the
\* case of letters.
DiffersOnlyInCapitalization(entry) ==
    /\ entry.Attempt # entry.Text
    /\ Lower(entry.Attempt) = Lower(entry.Text)

\* The hypothesis of the entry differs from its reference, and only in
\* punctuation characters.
DiffersOnlyInPunctuation(entry) ==
    /\ entry.Attempt # entry.Text
    /\ RemovePunctuation(entry.Attempt) = RemovePunctuation(entry.Text)

\* The entries of the batch the strict call counts.
StrictSamples ==
    {k \in 1..Len(linguistic_entries) : ~Skipped(linguistic_entries[k], FALSE)}

\* C23: in strict mode a sample whose hypothesis differs from the reference
\* only in capitalization, or only in punctuation, has a non-zero error count:
\* its alignment holds a non-match, and so the overall error count of the
\* batch is non-zero.
C23_StrictModeCountsFormattingDifferences ==
    (pc = "linguistic_done" /\ linguistic_mode.use_strict) =>
        \A k \in StrictSamples :
            (\/ DiffersOnlyInCapitalization(linguistic_entries[k])
             \/ DiffersOnlyInPunctuation(linguistic_entries[k])) =>
                /\ NonMatches(EntryAlignment(linguistic_entries[k], FALSE, TRUE)) > 0
                /\ linguistic_result.overall.error_count > 0

\* The part of C23 the code keeps: a difference of punctuation only is
\* counted in strict mode.
StrictModeCountsPunctuation ==
    (pc = "linguistic_done" /\ linguistic_mode.use_strict) =>
        \A k \in StrictSamples :
            DiffersOnlyInPunctuation(linguistic_entries[k]) =>
                linguistic_result.overall.error_count > 0

\* The operations the call counts: <<k, q>> is the q-th operation of the
\* alignment of the k-th entry, for the entries the mode does not skip.
CountedOperations ==
    UNION {{<<k, q>> :
              q \in 1..Len(EntryAlignment(linguistic_entries[k],
                                          linguistic_mode.apply_lenient,
                                          linguistic_mode.use_strict))} :
           k \in {n \in 1..Len(linguistic_entries) :
                    ~Skipped(linguistic_entries[n], linguistic_mode.apply_lenient)}}

OperationAt(p) ==
    EntryAlignment(linguistic_entries[p[1]], linguistic_mode.apply_lenient,
                   linguistic_mode.use_strict)[p[2]]

\* The counted operations whose expected token is of the category, and the
\* non-matches of a set of counted operations.
CountedOf(cat) ==
    {p \in CountedOperations : classify_token(OperationAt(p).expected) = cat}
ErrorsOf(ops) == {p \in ops : OperationAt(p).operation # "match"}

LetterCategories == {"vowel", "consonant", "digraph"}

\* C27: every operation of a non-skipped sample adds 1 to the overall total
\* and every non-match adds 1 to the overall errors; the vowel, consonant
\* and digraph tallies count the operations whose expected token is of the
\* category, so an insertion is tallied under overall alone; in every
\* category errors <= total, and the three totals (and errors) together never
\* exceed the overall total (and errors).
C27_CategoryTalliesKeyedOnExpected ==
    pc = "linguistic_done" =>
        /\ category_stats.all.total = Cardinality(CountedOperations)
        /\ category_stats.all.errors = Cardinality(ErrorsOf(CountedOperations))
        /\ \A cat \in LetterCategories :
              /\ category_stats[cat].total = Cardinality(CountedOf(cat))
              /\ category_stats[cat].errors = Cardinality(ErrorsOf(CountedOf(cat)))
        /\ \A p \in CountedOperations :
              OperationAt(p).operation = "insertion" =>
                 \A cat \in LetterCategories : p \notin CountedOf(cat)
        /\ \A cat \in DOMAIN category_stats :
              category_stats[cat].errors <= category_stats[cat].total
        /\ category_stats.vowel.total + category_stats.consonant.total
              + category_stats.digraph.total <= category_stats.all.total
        /\ category_stats.vowel.errors + category_stats.consonant.errors
              + category_stats.digraph.errors <= category_stats.all.errors
        /\ linguistic_result.overall.total_characters = category_stats.all.total
        /\ linguistic_result.overall.error_count = category_stats.all.errors
        /\ linguistic_result.vowels.total_characters = category_stats.vowel.total
        /\ linguistic_result.vowels.error_count = category_stats.vowel.errors

\* A finished call on two counted entries with an insertion, a match and a
\* deleted digraph: the insertion is in the overall errors only.
C27_Witness ==
    /\ pc = "linguistic_done"
    /\ skipped_count = 0
    /\ Len(linguistic_entries) = 2
    /\ \E p \in CountedOperations : OperationAt(p).operation = "insertion"
    /\ \E p \in CountedOperations : OperationAt(p).operation = "match"
    /\ category_stats.digraph.errors = 1
    /\ category_stats.all.errors >
          category_stats.vowel.errors + category_stats.consonant.errors
             + category_stats.digraph.errors

----------------------------------------------------------------------------
(* Claims about the vowel category *)

\* The plain letters the documentation of the linguistic analysis lists as
\* vowels (linguistic_analysis.py:182, main.py:271), those among them the
\* tokens of the model draw on.
DocumentedVowels == {"a", "w"}

\* Texts of lower-case letters a-z, and whether the tokenizer produces the
\* token from one of them.
LowerCaseTexts == SeqsUpTo({"a", "b", "w", "l"}, 2)
ProducedFromLowerCase(t) ==
    \E s \in LowerCaseTexts :
        \E k \in 1..Len(tokenize_welsh(s)) : tokenize_welsh(s)[k] = t

\* C24: classify_token returns "vowel" for each of a, e, i, o, u, w, y (in
\* particular for plain w), so every token the tokenizer produces from a
\* text of lower-case letters a-z is classified as vowel, consonant or
\* digraph and never as "other".
C24_LowerCaseTokensNeverOther ==
    pc = "classified" =>
        /\ (Len(token) = 1 /\ token[1] \in DocumentedVowels) => category = "vowel"
        /\ ProducedFromLowerCase(token) =>
              category \in {"vowel", "consonant", "digraph"}

\* What the code does for the letters of its two sets and the digraphs.
LowerCaseTokensExceptWNeverOther ==
    (pc = "classified" /\ ProducedFromLowerCase(token) /\ token # <<"w">>) =>
        category \in {"vowel", "consonant", "digraph"}

----------------------------------------------------------------------------
(* Claims about the four outcomes of the error costs *)

\* The labels the classification of lines 720-759 knows.
OutcomeLabels == {"USER_ERROR", "CORRECT", "ASR_ERROR"}

\* The entries of the batch that satisfy a condition.
EntriesWhere(Cond(_)) == {k \in 1..Len(entries_list) : Cond(entries_list[k])}

HasOtherLabel(e) == Labelled(e) /\ e.attribution_field \notin OutcomeLabels
IsAsrError(e) == e.attribution_field = "ASR_ERROR"
IsRejectedCorrect(e) == e.attribution_field = "CORRECT" /\ ~Accepted(e)

\* C28: false acceptances + false rejections + true positives + true
\* negatives = total_cases minus the labelled samples whose label is none of
\* USER_ERROR, CORRECT, ASR_ERROR; those samples are in the denominator and
\* in no outcome, every ASR_ERROR sample is a false rejection whether or not
\* its output equals the target, and a sample without a label is not counted.
C28_OutcomesSumToKnownLabels ==
    pc = "error_costs_done" =>
        /\ cost_result.total_cases = Cardinality(EntriesWhere(Labelled))
        /\ cost_result.false_acceptance.count + cost_result.false_rejection.count
              + cost_result.true_positive.count + cost_result.true_negative.count
           = cost_result.total_cases - Cardinality(EntriesWhere(HasOtherLabel))
        /\ cost_result.false_rejection.count =
              Cardinality(EntriesWhere(IsAsrError))
                 + Cardinality(EntriesWhere(IsRejectedCorrect))

\* A finished call on an AMBIGUOUS sample, an ASR_ERROR sample whose output
\* equals the target and a sample without a label: two cases, one outcome.
C28_Witness ==
    /\ pc = "error_costs_done"
    /\ Len(entries_list) = 3
    /\ \E k \in 1..3 : entries_list[k].attribution_field = "AMBIGUOUS"
    /\ \E k \in 1..3 : IsAsrError(entries_list[k]) /\ Accepted(entries_list[k])
    /\ \E k \in 1..3 : ~Labelled(entries_list[k])
    /\ cost_result.total_cases = 2
    /\ cost_result.false_rejection.count = 1
    /\ cost_result.true_positive.count = 0

----------------------------------------------------------------------------
(* Claims about normalize_text *)

\* What C29 says of an output, but for the upper-case letters: no hyphen, no
\* punctuation or symbol character, no whitespace at either end and no two
\* whitespace characters in a row.
CanonicalSpacing(s) ==
    /\ \A k \in 1..Len(s) : s[k] # "-" /\ s[k] \notin PunctuationOrSymbol
    /\ s # <<>> => s[1] \notin PyWhitespace /\ s[Len(s)] \notin PyWhitespace
    /\ \A k \in 1..(Len(s) - 1) :
          ~(s[k] \in PyWhitespace /\ s[k + 1] \in PyWhitespace)

\* C29 as stated: normalize_text is idempotent and its output contains no
\* upper-case letter, no hyphen, no punctuation or symbol character, no
\* leading or trailing whitespace and no two consecutive whitespace
\* characters.
C29_NormalFormHasNoUpperCase ==
    /\ pc \in {"normalized", "renormalized"} =>
          /\ CanonicalSpacing(normalized_text)
          /\ \A k \in 1..Len(normalized_text) : ~IsUpperChar(normalized_text[k])
    /\ pc = "renormalized" => renormalized_text = normalized_text

\* C29 amended: normalize_text is idempotent and its output contains no
\* upper-case letter that has a lower-case form (lower-casing leaves every
\* character of the output as it is), no hyphen, no punctuation or symbol
\* character, no leading or trailing whitespace and no two consecutive
\* whitespace characters.
C29_NormalFormIsLoweredAndIdempotent ==
    /\ pc \in {"normalized", "renormalized"} =>
          /\ CanonicalSpacing(normalized_text)
          /\ \A k \in 1..Len(normalized_text) :
                LowerChar(normalized_text[k]) = normalized_text[k]
    /\ pc = "renormalized" => renormalized_text = normalized_text

\* A text with an upper-case letter, a hyphen and a trailing tab, normalized
\* twice: the first pass changed it, the second did not.
C29_Witness ==
    /\ pc = "renormalized"
    /\ raw_text = <<"A", "-", "\t">>
    /\ normalized_text = <<"a">>
    /\ renormalized_text = normalized_text

----------------------------------------------------------------------------
(* Claims about the improvement of the hybrid over the best configuration *)

\* C30: for every batch with at least one valid sample the hybrid mean is
\* at most the mean of the best single configuration the call reports (the
\* least of the four raw and lenient means over the same samples):
\* improvement_absolute >= 0 and improvement_percentage >= 0.
C30_HybridNeverWorseThanBestSingle ==
    (/\ pc = "hybrid_done"
     /\ MatchedSubset(hybrid_entries) # <<>>
     /\ ~Raised(hybrid_result)) =>
        /\ FloatLe(hybrid_result.hybrid_mean_cer,
                   hybrid_result.best_individual_cer)
        /\ FloatLe(IntNum(0), hybrid_result.improvement_absolute)
        /\ FloatLe(IntNum(0), hybrid_result.improvement_percentage)

\* What holds when no sample has a raw rate below its lenient rates: the
\* hybrid is then at most the best single configuration.
RawNotBelowLenient(e) ==
    /\ FloatLe(e.CERWhisperLenient, GetOr(e.CERWhisper, Inf))
    /\ FloatLe(e.CERWav2Vec2Lenient, GetOr(e.CERWav2Vec2, Inf))
HybridAtMostBestSingleOfConsistentRates ==
    (/\ pc = "hybrid_done"
     /\ MatchedSubset(hybrid_entries) # <<>>
     /\ ~Raised(hybrid_result)
     /\ \A k \in 1..Len(MatchedSubset(hybrid_entries)) :
           RawNotBelowLenient(MatchedSubset(hybrid_entries)[k])) =>
        /\ FloatLe(hybrid_result.hybrid_mean_cer,
                   hybrid_result.best_individual_cer)
        /\ FloatLe(IntNum(0), hybrid_result.improvement_absolute)
        /\ FloatLe(IntNum(0), hybrid_result.improvement_percentage)

----------------------------------------------------------------------------
(* Claims about calls on the shared analyzer *)

\* The results a call returned for a batch are all equal.
SameResults(b, c) ==
    \A p, q \in 1..Len(returned[b][c]) : returned[b][c][p] = returned[b][c][q]

=============================================================================
